---- MODULE Spec2Model ----
(***************************************************************************)
(* Model of the portfolio simulation engine of investment_forecasting:     *)
(* the lot ledger and trade executor (utils/transaction.py), tax-loss      *)
(* harvesting (strategies/tax_loss_harvesting.py), the allocation engine   *)
(* (utils/allocation.py), the rebalancing policy (utils/rebalance.py) and  *)
(* the simulation driver (models/investment_model.py).                     *)
(*                                                                         *)
(* Numbers.  The code computes with Python floats; the model computes with *)
(* the exact values those floats stand for:                                *)
(*   - money (cash, cost, proceeds, gain_loss) is an integer number of     *)
(*     cents, every amount the code stores being a round(., 2);            *)
(*   - prices are integer cents (the price table is rounded to 2 places);  *)
(*   - share counts and weights are exact rationals <<n, d>> in lowest     *)
(*     terms with d > 0;                                                   *)
(*   - cost_basis is kept as the list of the updates buy_position made to  *)
(*     it, <<[held, cost, total_shares], ...>>; the number the code stores *)
(*     is CostBasisValue of that list, computed where it is read;          *)
(*   - return_pct is an integer number of hundredths of a percent;         *)
(*   - dates are day numbers in a calendar of 12 months of 30 days.        *)
(* round(x, k) is Python's round-half-to-even on the exact value.          *)
(***************************************************************************)
EXTENDS Integers, Sequences, FiniteSets, TLC

---------------------------------------------------------------------------
(* Exact rational arithmetic *)

Abs(x) == IF x < 0 THEN -x ELSE x

RECURSIVE GCD(_, _)
GCD(a, b) == IF b = 0 THEN a ELSE GCD(b, a % b)

Rat(n, d) ==
    LET s == IF d < 0 THEN -1 ELSE 1
        g == GCD(Abs(n), Abs(d))
    IN  IF n = 0 THEN <<0, 1>> ELSE <<(s * n) \div g, (s * d) \div g>>

RInt(n) == <<n, 1>>
RZero == <<0, 1>>
\* sums over the least common denominator and products with cross
\* cancellation, to keep the intermediate integers small
RAdd(a, b) ==
    LET g == GCD(a[2], b[2])
    IN  Rat(a[1] * (b[2] \div g) + b[1] * (a[2] \div g), (a[2] \div g) * b[2])
RNeg(a) == <<-a[1], a[2]>>
RSub(a, b) == RAdd(a, RNeg(b))
RMul(a, b) ==
    LET g1 == GCD(Abs(a[1]), b[2])
        g2 == GCD(Abs(b[1]), a[2])
    IN  IF a[1] = 0 \/ b[1] = 0 THEN <<0, 1>>
        ELSE <<(a[1] \div g1) * (b[1] \div g2), (a[2] \div g2) * (b[2] \div g1)>>
RDiv(a, b) ==
    RMul(a, IF b[1] < 0 THEN <<-b[2], -b[1]>> ELSE <<b[2], b[1]>>)
RLt(a, b) == a[1] * b[2] < b[1] * a[2]
RLe(a, b) == a[1] * b[2] <= b[1] * a[2]
RGt(a, b) == RLt(b, a)
RGe(a, b) == RLe(b, a)
RMin(a, b) == IF RLe(a, b) THEN a ELSE b

\* math.floor(x)
RFloor(a) == a[1] \div a[2]

\* round(x): nearest integer, ties to even
RRound(a) ==
    LET q == a[1] \div a[2]
        r == a[1] - q * a[2]
    IN  IF 2 * r < a[2] THEN q
        ELSE IF 2 * r > a[2] THEN q + 1
        ELSE IF q % 2 = 0 THEN q ELSE q + 1

\* round(x, 2) and round(x, 4) of a rational, as a rational
Round2(a) == Rat(RRound(RMul(a, RInt(100))), 100)
Round4(a) == Rat(RRound(RMul(a, RInt(10000))), 10000)
\* math.floor(x * 100) / 100
Floor2(a) == Rat(RFloor(RMul(a, RInt(100))), 100)

\* round(shares * price, 2) in cents, price in cents
RoundCents(shares, price) == RRound(RMul(shares, RInt(price)))

---------------------------------------------------------------------------
(* Calendar: day numbers, 30-day months, 12-month years *)

DaysPerMonth == 30
MonthsPerYear == 12
YearOf(d) == d \div (DaysPerMonth * MonthsPerYear)
MonthOf(d) == ((d \div DaysPerMonth) % MonthsPerYear) + 1
QuarterOf(d) == ((MonthOf(d) - 1) \div 3) + 1

---------------------------------------------------------------------------
(* Configuration and input sets *)

Tickers == {"A", "B"}
\* iteration order of portfolio.tickers / portfolio.holdings
TickerSeq == <<"A", "B", "C">>

\* a missing price (NaN, or ticker absent from the row)
NaN == 0

\* short-term / long-term boundary of record_gains_losses
LongTermDays == 365

\* config 'sell_trigger': -10 percent, in hundredths of a percent
SellTrigger == -1000

VARIABLES
    cash,                        \* portfolio.cash, cents
    holdings,                    \* portfolio.holdings: ticker -> holding
    transaction_history,         \* portfolio.transaction_history
    portfolio_history,           \* portfolio.portfolio_history
    short_term_realized_gains,   \* cents
    short_term_realized_losses,  \* cents
    long_term_realized_gains,    \* cents
    long_term_realized_losses,   \* cents
    last_rebalance_date,         \* portfolio.last_rebalance_date
    rebalance_frequency,         \* portfolio.rebalance_frequency
    portfolio_allocation,        \* portfolio.portfolio_allocation
    tickers,                     \* portfolio.tickers
    date,                        \* the date the operations are called with
    date_prices,                 \* prices.loc[date]: ticker -> cents or NaN
    investment_dates,            \* model.investment_dates
    trading_days,                \* prices_df.index
    next_date,                   \* position of the driver's loop over the dates
    calculated_weights,          \* result of calculate_allocation_weights
    last                         \* observation of the last operation

vars == <<cash, holdings, transaction_history, short_term_realized_gains,
          short_term_realized_losses, long_term_realized_gains,
          long_term_realized_losses, last_rebalance_date, rebalance_frequency,
          portfolio_allocation, tickers, date, date_prices, investment_dates,
          trading_days, next_date, portfolio_history, calculated_weights,
          last>>

---------------------------------------------------------------------------
(* The Portfolio object as a value, and the records it holds *)

\* the mutable fields of the Portfolio the operations work on
PortfolioState ==
    [cash |-> cash,
     holdings |-> holdings,
     transaction_history |-> transaction_history,
     short_term_realized_gains |-> short_term_realized_gains,
     short_term_realized_losses |-> short_term_realized_losses,
     long_term_realized_gains |-> long_term_realized_gains,
     long_term_realized_losses |-> long_term_realized_losses,
     last_rebalance_date |-> last_rebalance_date]

\* the entry initialize_holdings / buy_position create for a ticker
EmptyHolding ==
    [initial_shares_purchased |-> RZero,
     shares_remaining |-> RZero,
     cost_basis |-> <<>>,
     investments |-> <<>>,
     dividend_income |-> 0]

\* iteration order of portfolio.holdings.items()
HoldingOrder(h) == SelectSeq(TickerSeq, LAMBDA t : t \in DOMAIN h)

\* One entry of the transaction log.  lot is the position, in the ticker's
\* investments list, of the lot a buy created or a sell consumed (0 for cash
\* events); partial tells 'Partial sell of' from 'Sell of' in the description.
Txn(type, ticker, shares, price, amount, gain_loss, gain_loss_pct, days_held, d, description, lot, partial) ==
    [type |-> type, ticker |-> ticker, shares |-> shares, price |-> price,
     amount |-> amount, gain_loss |-> gain_loss,
     gain_loss_pct |-> gain_loss_pct, days_held |-> days_held, date |-> d,
     description |-> description, lot |-> lot, partial |-> partial]

---------------------------------------------------------------------------
(* Portfolio.add_cash *)

\* add_cash starting the log afresh with its entry
add_cash_fresh_log(p, amount, transaction_date, description) ==
    [p EXCEPT
        !.cash = @ + amount,
        !.transaction_history =
            <<Txn(IF amount > 0 THEN "deposit" ELSE "withdrawal", "", RZero,
                  0, Abs(amount), 0, 0, 0, transaction_date, description, 0,
                  FALSE)>>]

\* add_cash recording the signed amount in place of abs(amount)
add_cash_signed(p, amount, transaction_date, description) ==
    [p EXCEPT
        !.cash = @ + amount,
        !.transaction_history = Append(@,
            Txn(IF amount > 0 THEN "deposit" ELSE "withdrawal", "", RZero, 0,
                amount, 0, 0, 0, transaction_date, description, 0, FALSE))]

add_cash(p, amount, transaction_date, description) ==
    [p EXCEPT
        !.cash = @ + amount,
        !.transaction_history = Append(@,
            Txn(IF amount > 0 THEN "deposit" ELSE "withdrawal", "", RZero, 0,
                Abs(amount), 0, 0, 0, transaction_date, description, 0,
                FALSE))]

\* Portfolio.record_dividend
record_dividend(p, ticker, amount, d, description) ==
    IF ticker \in DOMAIN p.holdings
    THEN [p EXCEPT
            !.holdings[ticker].dividend_income = @ + amount,
            !.cash = @ + amount,
            !.transaction_history = Append(@,
                Txn("dividend", ticker, RZero, 0, amount, 0, 0, 0, d,
                    description, 0, FALSE))]
    ELSE p

---------------------------------------------------------------------------
(* utils/reporting.py: record_gains_losses *)

\* a routing by sign alone, into the short-term buckets
record_gains_losses_short(p, lot_gain_loss, days_held) ==
    IF lot_gain_loss <= 0
    THEN [p EXCEPT !.short_term_realized_losses = @ + lot_gain_loss]
    ELSE [p EXCEPT !.short_term_realized_gains = @ + lot_gain_loss]

record_gains_losses(p, lot_gain_loss, days_held) ==
    IF days_held < LongTermDays /\ lot_gain_loss <= 0
    THEN [p EXCEPT !.short_term_realized_losses = @ + lot_gain_loss]
    ELSE IF days_held >= LongTermDays /\ lot_gain_loss <= 0
    THEN [p EXCEPT !.long_term_realized_losses = @ + lot_gain_loss]
    ELSE IF days_held < LongTermDays /\ lot_gain_loss > 0
    THEN [p EXCEPT !.short_term_realized_gains = @ + lot_gain_loss]
    ELSE [p EXCEPT !.long_term_realized_gains = @ + lot_gain_loss]

---------------------------------------------------------------------------
(* utils/transaction.py: buy_position *)

\* the number a stored cost basis stands for: 0 before the first buy, then
\* (old basis x old shares + cost) / new shares for every buy, lines 60-62
RECURSIVE CostBasisAfter(_, _)
CostBasisAfter(updates, k) ==
    IF k = 0 THEN RZero
    ELSE RDiv(RAdd(RMul(CostBasisAfter(updates, k - 1), updates[k].held),
                   RInt(updates[k].cost)),
              updates[k].total_shares)

CostBasisValue(cost_basis) == CostBasisAfter(cost_basis, Len(cost_basis))

\* the cost basis after a buy: the update of lines 60-63 added to the list
NewCostBasis(current_basis, total_shares, shares_to_buy, actual_investment) ==
    Append(current_basis,
           [held |-> RSub(total_shares, shares_to_buy),
            cost |-> actual_investment,
            total_shares |-> total_shares])

\* a purchase without the cash check of lines 24-29
BuyAmountUnchecked(p_cash, shares_to_buy, price) ==
    [shares |-> shares_to_buy, cost |-> RoundCents(shares_to_buy, price)]

\* shares and cost of the purchase after the cash check
BuyAmount(p_cash, shares_to_buy, price) ==
    LET actual_investment == RoundCents(shares_to_buy, price)
    IN  IF actual_investment > p_cash
        THEN LET reduced == Rat(p_cash, price)
             IN  [shares |-> reduced, cost |-> RoundCents(reduced, price)]
        ELSE [shares |-> shares_to_buy, cost |-> actual_investment]

\* a purchase record that leaves the cost of the lot out
PurchaseRecordCostless(shares_to_buy, actual_investment, price, d) ==
    [date |-> d,
     initial_shares_purchased |-> shares_to_buy,
     shares_remaining |-> shares_to_buy,
     price |-> price,
     cost |-> 0,
     current_value |-> actual_investment,
     return_pct |-> 0,
     days_held |-> 0,
     sold |-> FALSE]

\* the lot of lines 46-56
PurchaseRecord(shares_to_buy, actual_investment, price, d) ==
    [date |-> d,
     initial_shares_purchased |-> shares_to_buy,
     shares_remaining |-> shares_to_buy,
     price |-> price,
     cost |-> actual_investment,
     current_value |-> actual_investment,
     return_pct |-> 0,
     days_held |-> 0,
     sold |-> FALSE]

buy_position(p, ticker, shares_to_buy, price, d, description) ==
    LET b == BuyAmount(p.cash, shares_to_buy, price)
        h0 == IF ticker \in DOMAIN p.holdings
              THEN p.holdings[ticker] ELSE EmptyHolding
        total_shares == RAdd(h0.shares_remaining, b.shares)
        purchase_record == PurchaseRecord(b.shares, b.cost, price, d)
        h1 == [h0 EXCEPT
                 !.initial_shares_purchased = RAdd(@, b.shares),
                 !.shares_remaining = total_shares,
                 !.investments = Append(@, purchase_record),
                 !.cost_basis = NewCostBasis(@, total_shares, b.shares, b.cost)]
    IN  IF RGt(b.shares, RZero)
        THEN [p EXCEPT
                !.holdings = [t \in DOMAIN p.holdings \cup {ticker} |->
                                 IF t = ticker THEN h1 ELSE p.holdings[t]],
                !.cash = @ - b.cost,
                !.transaction_history = Append(@,
                    Txn("buy", ticker, b.shares, price, -b.cost, 0, 0, 0, d,
                        description, Len(h1.investments), FALSE))]
        ELSE p

---------------------------------------------------------------------------
(* utils/transaction.py: sell_position *)

\* the sequence of the elements of S in the strict total order before, a
\* set of pairs
SortedBy(S, before) ==
    [k \in 1..Cardinality(S) |->
        CHOOSE x \in S : Cardinality({y \in S : <<y, x>> \in before}) = k - 1]

\* positions of the non-sold lots of a list of investments
ActiveInvestments(investments) ==
    {i \in 1..Len(investments) : ~investments[i].sold}

\* a selling queue that takes all active lots oldest first
SellingQueueFifo(investments, price) ==
    LET active == ActiveInvestments(investments)
        DateBefore(i, j) ==
            \/ investments[i].date < investments[j].date
            \/ investments[i].date = investments[j].date /\ i < j
    IN  SortedBy(active, {q \in active \X active : DateBefore(q[1], q[2])})

\* loss lots by purchase price descending (list.sort is stable, also with
\* reverse=True), then gain lots by purchase date ascending
SellingQueue(investments, price) ==
    LET active == ActiveInvestments(investments)
        loss_investments == {i \in active : investments[i].price > price}
        gain_investments == {i \in active : investments[i].price <= price}
        LossBefore(i, j) ==
            \/ investments[i].price > investments[j].price
            \/ investments[i].price = investments[j].price /\ i < j
        GainBefore(i, j) ==
            \/ investments[i].date < investments[j].date
            \/ investments[i].date = investments[j].date /\ i < j
    IN  SortedBy(loss_investments,
                 {q \in loss_investments \X loss_investments :
                     LossBefore(q[1], q[2])})
            \o SortedBy(gain_investments,
                        {q \in gain_investments \X gain_investments :
                            GainBefore(q[1], q[2])})

\* one pass of the loop body over the lot at position i of the ticker
SellLot(w, ticker, i, price, d, description) ==
    LET investment == w.p.holdings[ticker].investments[i]
        whole == RLe(investment.shares_remaining, w.remaining_to_sell)
        sold_shares == IF whole THEN investment.shares_remaining
                       ELSE Round2(w.remaining_to_sell)
        left == Round4(RSub(investment.shares_remaining, sold_shares))
        investment1 ==
            IF whole THEN [investment EXCEPT !.sold = TRUE]
            ELSE [investment EXCEPT !.shares_remaining = left,
                                    !.sold = IF left = RZero THEN TRUE ELSE @]
        lot_proceeds == RoundCents(sold_shares, price)
        lot_cost == RMul(sold_shares, RInt(investment.price))
        lot_gain_loss == RRound(RSub(RInt(lot_proceeds), lot_cost))
        p1 == [w.p EXCEPT
                 !.holdings[ticker].investments[i] = investment1,
                 !.transaction_history = Append(@,
                     Txn("sell", ticker, sold_shares, price, lot_proceeds,
                         lot_gain_loss, investment.return_pct,
                         investment.days_held, d, description, i, ~whole))]
        p2 == record_gains_losses(p1, lot_gain_loss, investment.days_held)
        p3 == IF RGt(sold_shares, RZero)
              THEN [p2 EXCEPT !.cash = @ + lot_proceeds] ELSE p2
    IN  [p |-> p3,
         remaining_to_sell |->
             IF whole THEN RSub(w.remaining_to_sell, sold_shares) ELSE RZero]

\* the loop over selling_queue from position k on
RECURSIVE SellWalk(_, _, _, _, _, _, _)
SellWalk(w, ticker, selling_queue, k, price, d, description) ==
    IF k > Len(selling_queue) \/ RLe(w.remaining_to_sell, RZero)
    THEN w
    ELSE SellWalk(SellLot(w, ticker, selling_queue[k], price, d, description),
                  ticker, selling_queue, k + 1, price, d, description)

\* returns the portfolio after the call and what the call returned
sell_position(p, ticker, shares_to_sell, price, d, description) ==
    IF ticker \notin DOMAIN p.holdings
    THEN [p |-> p, ret |-> "None"]
    ELSE
      LET selling_queue == SellingQueue(p.holdings[ticker].investments, price)
          w == SellWalk([p |-> p, remaining_to_sell |-> shares_to_sell],
                        ticker, selling_queue, 1, price, d, description)
          actual_shares_sold == RSub(shares_to_sell, w.remaining_to_sell)
      IN  IF RGt(actual_shares_sold, RZero)
          THEN [p |-> [w.p EXCEPT !.holdings[ticker].shares_remaining =
                                      RSub(@, actual_shares_sold)],
                ret |-> "transactions"]
          ELSE [p |-> w.p, ret |-> "None"]

---------------------------------------------------------------------------
(* utils/transaction.py: update_positions *)

\* round(((current_value / investment_cost_prorated) - 1) * 100, 2), in
\* hundredths of a percent, of a lot with the given remaining shares
ReturnPct(investment, shares_remaining, current_price) ==
    LET current_value == RoundCents(shares_remaining, current_price)
        investment_cost_prorated ==
            RMul(RInt(investment.cost),
                 RDiv(shares_remaining, investment.initial_shares_purchased))
    IN  RRound(RMul(RSub(RDiv(RInt(current_value), investment_cost_prorated),
                         RInt(1)),
                    RInt(10000)))

\* a scan that skips no lot
SkippedLotNever(investment) == FALSE

\* the lots the revaluation and the harvesting scan skip
SkippedLot(investment) ==
    investment.sold \/ investment.shares_remaining = RZero

\* a revaluation that adds the days to the days_held already stored
UpdateInvestmentAdding(investment, current_price, d) ==
    IF SkippedLot(investment) THEN investment
    ELSE [investment EXCEPT
            !.days_held = @ + (d - investment.date),
            !.current_value =
                RoundCents(investment.shares_remaining, current_price),
            !.return_pct =
                ReturnPct(investment, investment.shares_remaining,
                          current_price)]

UpdateInvestment(investment, current_price, d) ==
    IF SkippedLot(investment) THEN investment
    ELSE [investment EXCEPT
            !.days_held = d - investment.date,
            !.current_value =
                RoundCents(investment.shares_remaining, current_price),
            !.return_pct =
                ReturnPct(investment, investment.shares_remaining,
                          current_price)]

update_positions(p, prices_row, d) ==
    [p EXCEPT !.holdings =
        [t \in DOMAIN p.holdings |->
            IF t \notin DOMAIN prices_row \/ prices_row[t] = NaN
            THEN p.holdings[t]
            ELSE [p.holdings[t] EXCEPT !.investments =
                    [i \in 1..Len(@) |->
                        UpdateInvestment(@[i], prices_row[t], d)]]]]

---------------------------------------------------------------------------
(* strategies/tax_loss_harvesting.py: track_and_manage_positions *)

\* the trigger test with the comparison turned around
MeetsSellTriggerInverted(investment, sell_trigger) ==
    investment.return_pct >= sell_trigger

\* the test at line 51 on the lot's stored return_pct
MeetsSellTrigger(investment, sell_trigger) ==
    investment.return_pct <= sell_trigger

\* the body of the inner loop for the lot at position i of the ticker
HarvestLot(p, ticker, i, current_price, d, sell_trigger) ==
    LET investment == p.holdings[ticker].investments[i]
        investment_cost_prorated ==
            RMul(RInt(investment.cost),
                 RDiv(investment.shares_remaining,
                      investment.initial_shares_purchased))
        sale_proceeds == RoundCents(investment.shares_remaining, current_price)
        sold_shares == investment.shares_remaining
        realized_loss ==
            RRound(RSub(RInt(sale_proceeds), investment_cost_prorated))
        p1 == [p EXCEPT
                 !.holdings[ticker].investments[i].sold = TRUE,
                 !.holdings[ticker].investments[i].shares_remaining = RZero,
                 !.cash = @ + sale_proceeds]
        p2 == record_gains_losses(p1, realized_loss, investment.days_held)
        p3 == [p2 EXCEPT !.transaction_history = Append(@,
                 Txn("sell", ticker, sold_shares, current_price, sale_proceeds,
                     realized_loss, investment.return_pct,
                     investment.days_held, d, "tax-loss harvesting", i,
                     FALSE))]
    IN  IF SkippedLot(investment) \/ ~MeetsSellTrigger(investment, sell_trigger)
        THEN p
        ELSE IF RGt(sold_shares, RZero)
        THEN [p3 EXCEPT !.holdings[ticker].shares_remaining =
                            RSub(@, sold_shares)]
        ELSE p3

\* the inner loop over holding['investments'] from position i on
RECURSIVE HarvestLots(_, _, _, _, _, _)
HarvestLots(p, ticker, i, current_price, d, sell_trigger) ==
    IF i > Len(p.holdings[ticker].investments) THEN p
    ELSE HarvestLots(HarvestLot(p, ticker, i, current_price, d, sell_trigger),
                     ticker, i + 1, current_price, d, sell_trigger)

\* the outer loop over portfolio.holdings.items() from position k on;
\* h is [p, sold_tickers]
RECURSIVE HarvestTickers(_, _, _, _, _, _)
HarvestTickers(h, order, k, prices_row, d, sell_trigger) ==
    IF k > Len(order) THEN h
    ELSE
      LET ticker == order[k]
          p1 == IF ticker \notin DOMAIN prices_row \/ prices_row[ticker] = NaN
                THEN h.p
                ELSE HarvestLots(h.p, ticker, 1, prices_row[ticker], d,
                                 sell_trigger)
          ticker_sold == Len(p1.transaction_history)
                             > Len(h.p.transaction_history)
      IN  HarvestTickers(
              [p |-> p1,
               sold_tickers |-> IF ticker_sold
                                THEN Append(h.sold_tickers, ticker)
                                ELSE h.sold_tickers],
              order, k + 1, prices_row, d, sell_trigger)

track_and_manage_positions(p, prices_row, d, sell_trigger) ==
    HarvestTickers([p |-> p, sold_tickers |-> <<>>],
                   HoldingOrder(p.holdings), 1, prices_row, d, sell_trigger)

---------------------------------------------------------------------------
(* utils/allocation.py: calculate_allocation_weights *)

RECURSIVE SumWeights(_, _)
SumWeights(weights, S) ==
    IF S = {} THEN RZero
    ELSE LET t == CHOOSE x \in S : TRUE
         IN  RAdd(weights[t], SumWeights(weights, S \ {t}))

\* {k: float(f"{(v/weight_sum):.4f}") for k, v in weights.items()} when the
\* sum is positive, the weights as they are otherwise
NormalizeRounded(weights) ==
    LET weight_sum == SumWeights(weights, DOMAIN weights)
    IN  IF RGt(weight_sum, RZero)
        THEN [k \in DOMAIN weights |-> Round4(RDiv(weights[k], weight_sum))]
        ELSE weights

\* allocation is portfolio.portfolio_allocation, tks portfolio.tickers
calculate_allocation_weights(allocation, tks) ==
    IF allocation.kind = "equal"
    THEN [t \in tks |-> Rat(1, Cardinality(tks))]
    ELSE NormalizeRounded(allocation.weights)

---------------------------------------------------------------------------
(* utils/allocation.py: invest_available_cash *)

\* weights renormalized with no ticker popped
AdjustedWeightsKeepAll(allocation_weights, excluded_tickers) ==
    NormalizeRounded(allocation_weights)

\* the weights the purchases are sized with: the excluded tickers popped,
\* the rest renormalized
AdjustedWeights(allocation_weights, excluded_tickers) ==
    NormalizeRounded([t \in DOMAIN allocation_weights \ excluded_tickers |->
                         allocation_weights[t]])

\* an amount sized with half the weight
InvestmentAmountHalf(available_cash, weight) ==
    RFloor(RMul(RInt(available_cash), RMul(weight, Rat(1, 2))))

\* math.floor(available_cash * weight * 100) / 100, cents
InvestmentAmount(available_cash, weight) ==
    RFloor(RMul(RInt(available_cash), weight))

\* math.floor(investment_amount / price * 100) / 100
SharesToBuy(investment_amount, price) ==
    Floor2(Rat(investment_amount, price))

\* the loop over adjusted_weights.items() from position k of order on
RECURSIVE InvestLoop(_, _, _, _, _, _, _)
InvestLoop(p, adjusted_weights, order, k, available_cash, prices_row, d) ==
    IF k > Len(order) THEN p
    ELSE
      LET ticker == order[k]
          price == prices_row[ticker]
          shares_to_buy ==
              SharesToBuy(InvestmentAmount(available_cash,
                                           adjusted_weights[ticker]), price)
          p1 == IF ticker \notin DOMAIN prices_row \/ prices_row[ticker] = NaN
                THEN p
                ELSE IF RGe(shares_to_buy, Rat(1, 100))
                THEN buy_position(p, ticker, shares_to_buy, price, d, "Bought")
                ELSE p
      IN  InvestLoop(p1, adjusted_weights, order, k + 1, available_cash,
                     prices_row, d)

invest_available_cash(p, allocation_weights, prices_row, d, excluded_tickers) ==
    LET adjusted_weights == AdjustedWeights(allocation_weights, excluded_tickers)
        order == SelectSeq(TickerSeq, LAMBDA t : t \in DOMAIN adjusted_weights)
    IN  IF p.cash <= 0 THEN p
        ELSE InvestLoop(p, adjusted_weights, order, 1, p.cash, prices_row, d)

---------------------------------------------------------------------------
(* Portfolio.calculate_total_value and utils/rebalance.py *)

HasPrice(prices_row, t) == t \in DOMAIN prices_row /\ prices_row[t] # NaN

\* cash + sum of shares_remaining x price over the priced holdings, cents
RECURSIVE HoldingsValue(_, _, _)
HoldingsValue(h, prices_row, S) ==
    IF S = {} THEN RZero
    ELSE LET t == CHOOSE x \in S : TRUE
         IN  RAdd(IF HasPrice(prices_row, t)
                  THEN RMul(h[t].shares_remaining, RInt(prices_row[t]))
                  ELSE RZero,
                  HoldingsValue(h, prices_row, S \ {t}))

calculate_total_value(p, prices_row) ==
    RAdd(RInt(p.cash), HoldingsValue(p.holdings, prices_row, DOMAIN p.holdings))

\* the 2% buffer around the target, the $10 minimum and the 0.01 share minimum
UpperBand == Rat(102, 100)
LowerBand == Rat(98, 100)
MinRebalanceCash == 1000
MinShares == Rat(1, 100)

\* target allocation without the excluded tickers, renormalized (unrounded)
AdjustedTarget(target_allocation, excluded_tickers) ==
    LET kept == [t \in DOMAIN target_allocation \ excluded_tickers |->
                    target_allocation[t]]
        total_weight == SumWeights(kept, DOMAIN kept)
    IN  [t \in DOMAIN kept |-> RDiv(kept[t], total_weight)]

\* a first loop that trims every position above its target, in the 2% band
\* or not
RebalanceSellNoBand(p, ticker, current_values, target_values, excluded_tickers, prices_row, d) ==
    LET current_value == current_values[ticker]
        shares_to_sell ==
            Round2(RDiv(RSub(current_value, target_values[ticker]),
                        RInt(prices_row[ticker])))
    IN  IF ticker \notin DOMAIN target_values
        THEN IF ticker \notin excluded_tickers
             THEN sell_position(p, ticker,
                      p.holdings[ticker].shares_remaining,
                      prices_row[ticker], d, "Rebalancing - Sell").p
             ELSE p
        ELSE IF RGt(current_value, target_values[ticker])
                /\ RGt(shares_to_sell, MinShares)
        THEN sell_position(p, ticker, shares_to_sell,
                 prices_row[ticker], d, "Rebalancing - Trim").p
        ELSE p

\* the body of the first loop for one ticker: sell what is over its target
RebalanceSell(p, ticker, current_values, target_values, excluded_tickers, prices_row, d) ==
    LET current_value == current_values[ticker]
        shares_to_sell ==
            Round2(RDiv(RSub(current_value, target_values[ticker]),
                        RInt(prices_row[ticker])))
    IN  IF ticker \notin DOMAIN target_values
        THEN IF ticker \notin excluded_tickers
             THEN sell_position(p, ticker,
                      p.holdings[ticker].shares_remaining,
                      prices_row[ticker], d, "Rebalancing - Sell").p
             ELSE p
        ELSE IF RGt(current_value, RMul(target_values[ticker], UpperBand))
                /\ RGt(shares_to_sell, MinShares)
        THEN sell_position(p, ticker, shares_to_sell,
                 prices_row[ticker], d, "Rebalancing - Trim").p
        ELSE p

\* the first loop, over current_values.items() from position k of order on
RECURSIVE RebalanceSells(_, _, _, _, _, _, _, _)
RebalanceSells(p, order, k, current_values, target_values, excluded_tickers, prices_row, d) ==
    IF k > Len(order) THEN p
    ELSE RebalanceSells(RebalanceSell(p, order[k], current_values,
                                      target_values, excluded_tickers,
                                      prices_row, d),
                        order, k + 1, current_values, target_values,
                        excluded_tickers, prices_row, d)

\* the body of the second loop for one ticker: buy what is under its target
RebalanceBuy(p, ticker, current_values, target_values, excluded_tickers, prices_row, d) ==
    LET target_value == target_values[ticker]
        current_value == IF ticker \in DOMAIN current_values
                         THEN current_values[ticker] ELSE RZero
        amount_to_buy == RMin(RSub(target_value, current_value),
                              RInt(p.cash))
        shares_to_buy == Round2(RDiv(amount_to_buy, RInt(prices_row[ticker])))
    IN  IF /\ ticker \notin excluded_tickers
           /\ HasPrice(prices_row, ticker)
           /\ RLt(current_value, RMul(target_value, LowerBand))
           /\ RGe(shares_to_buy, MinShares)
           /\ RGt(amount_to_buy, RInt(MinRebalanceCash))
        THEN buy_position(p, ticker, shares_to_buy, prices_row[ticker], d,
                          "Rebalancing - Add")
        ELSE p

\* the second loop, over target_values.items() from position k of order on
RECURSIVE RebalanceBuys(_, _, _, _, _, _, _, _)
RebalanceBuys(p, order, k, current_values, target_values, excluded_tickers, prices_row, d) ==
    IF k > Len(order) THEN p
    ELSE RebalanceBuys(RebalanceBuy(p, order[k], current_values,
                                    target_values, excluded_tickers,
                                    prices_row, d),
                       order, k + 1, current_values, target_values,
                       excluded_tickers, prices_row, d)

\* current_values: shares_remaining x price of the priced holdings
CurrentValues(p, prices_row) ==
    [t \in {x \in DOMAIN p.holdings : HasPrice(prices_row, x)} |->
        RMul(p.holdings[t].shares_remaining, RInt(prices_row[t]))]

\* target_values: total_value x weight for the tickers of adjusted_target
TargetValues(total_value, adjusted_target) ==
    [t \in DOMAIN adjusted_target |-> RMul(total_value, adjusted_target[t])]

\* the buys, made when more than $10 of cash is there after the sells
RebalanceBuyPhase(p, current_values, target_values, excluded_tickers, prices_row, d) ==
    IF p.cash > MinRebalanceCash
    THEN RebalanceBuys(p,
             SelectSeq(TickerSeq, LAMBDA t : t \in DOMAIN target_values), 1,
             current_values, target_values, excluded_tickers, prices_row, d)
    ELSE p

\* the two loops in the other order: the buys, then the sells
RebalanceTradesBuyFirst(p, current_values, target_values, excluded_tickers, prices_row, d) ==
    RebalanceSells(
        RebalanceBuyPhase(p, current_values, target_values, excluded_tickers,
                          prices_row, d),
        SelectSeq(TickerSeq, LAMBDA t : t \in DOMAIN current_values), 1,
        current_values, target_values, excluded_tickers, prices_row, d)

\* the sells, then the buys, for the values computed before any trade
RebalanceTrades(p, current_values, target_values, excluded_tickers, prices_row, d) ==
    RebalanceBuyPhase(
        RebalanceSells(p,
            SelectSeq(TickerSeq, LAMBDA t : t \in DOMAIN current_values), 1,
            current_values, target_values, excluded_tickers, prices_row, d),
        current_values, target_values, excluded_tickers, prices_row, d)

\* perform_rebalance with the exclusion list already defaulted to []
Rebalance(p, allocation, tks, prices_row, d, excluded_tickers) ==
    RebalanceTrades(p, CurrentValues(p, prices_row),
        TargetValues(calculate_total_value(p, prices_row),
                     AdjustedTarget(calculate_allocation_weights(allocation, tks),
                                    excluded_tickers)),
        excluded_tickers, prices_row, d)

\* a rebalance that drops the exclusion list it is given
perform_rebalance_no_exclusions(p, allocation, tks, prices_row, d, excluded_tickers) ==
    Rebalance(p, allocation, tks, prices_row, d, {})

perform_rebalance(p, allocation, tks, prices_row, d, excluded_tickers) ==
    Rebalance(p, allocation, tks, prices_row, d, excluded_tickers)

\* a cadence test that compares the month or quarter and not the year
should_rebalance_time_no_year(frequency, current_date, last_rebalance) ==
    IF frequency = "monthly"
    THEN MonthOf(current_date) > MonthOf(last_rebalance)
    ELSE IF frequency = "quarterly"
    THEN QuarterOf(current_date) > QuarterOf(last_rebalance)
    ELSE IF frequency = "yearly"
    THEN YearOf(current_date) > YearOf(last_rebalance)
    ELSE FALSE

\* is_rebalancing_needed: [p, ret]; the holdings dictionary being empty
\* returns None, which the caller treats as false
should_rebalance_time(frequency, current_date, last_rebalance) ==
    IF frequency = "monthly"
    THEN \/ YearOf(current_date) > YearOf(last_rebalance)
         \/ /\ YearOf(current_date) = YearOf(last_rebalance)
            /\ MonthOf(current_date) > MonthOf(last_rebalance)
    ELSE IF frequency = "quarterly"
    THEN \/ YearOf(current_date) > YearOf(last_rebalance)
         \/ /\ YearOf(current_date) = YearOf(last_rebalance)
            /\ QuarterOf(current_date) > QuarterOf(last_rebalance)
    ELSE IF frequency = "yearly"
    THEN YearOf(current_date) > YearOf(last_rebalance)
    ELSE FALSE

\* a check that leaves last_rebalance_date as it was
is_rebalancing_needed_no_update(p, frequency, investment_date) ==
    IF DOMAIN p.holdings = {}
    THEN [p |-> p, ret |-> FALSE]
    ELSE [p |-> p,
          ret |-> should_rebalance_time(frequency, investment_date,
                                        p.last_rebalance_date)]

is_rebalancing_needed(p, frequency, investment_date) ==
    IF DOMAIN p.holdings = {}
    THEN [p |-> p, ret |-> FALSE]
    ELSE LET due == should_rebalance_time(frequency, investment_date,
                                          p.last_rebalance_date)
         IN  [p |-> IF due THEN [p EXCEPT !.last_rebalance_date = investment_date]
                    ELSE p,
              ret |-> due]

---------------------------------------------------------------------------
(* utils/date_utils.py: get_closest_trading_day *)

NoDate == -1
SearchDays == 5

\* the first of target+i, target-i for i = k..5 that is in the index
RECURSIVE ClosestFrom(_, _, _)
ClosestFrom(target_date, index, k) ==
    IF k > SearchDays THEN NoDate
    ELSE IF target_date + k \in index THEN target_date + k
    ELSE IF target_date - k \in index THEN target_date - k
    ELSE ClosestFrom(target_date, index, k + 1)

\* a lookup that searches the days after the target only
get_closest_trading_day_forward(target_date, index) ==
    IF target_date \in index THEN target_date
    ELSE IF \E k \in 1..SearchDays : target_date + k \in index
    THEN CHOOSE d \in index :
             /\ d - target_date \in 1..SearchDays
             /\ \A k \in 1..SearchDays :
                   target_date + k \in index => d <= target_date + k
    ELSE NoDate

\* a lookup that accepts the exact date only
get_closest_trading_day_exact(target_date, index) ==
    IF target_date \in index THEN target_date ELSE NoDate

get_closest_trading_day(target_date, index) ==
    IF target_date \in index THEN target_date
    ELSE ClosestFrom(target_date, index, 1)

---------------------------------------------------------------------------
(* models/investment_model.py: _run_investment_cycle *)

\* [p, rebalanced, sold_tickers] after one cycle
SetOf(sq) == {sq[k] : k \in 1..Len(sq)}

\* the normal cycle after the harvest h = [p, sold_tickers]: invest the cash
\* outside the tickers just sold
CycleInvest(h, allocation, tks, prices_row, closest_date) ==
    [p |-> invest_available_cash(h.p,
               calculate_allocation_weights(allocation, tks), prices_row,
               closest_date, SetOf(h.sold_tickers)),
     rebalanced |-> FALSE, sold_tickers |-> h.sold_tickers]

\* the branch on rebalancing_needed, after update_positions
CycleTrades(p, rebalancing_needed, allocation, tks, prices_row, closest_date) ==
    IF rebalancing_needed
    THEN [p |-> perform_rebalance(p, allocation, tks, prices_row,
                                  closest_date, {}),
          rebalanced |-> TRUE, sold_tickers |-> <<>>]
    ELSE CycleInvest(track_and_manage_positions(p, prices_row, closest_date,
                                                SellTrigger),
                     allocation, tks, prices_row, closest_date)

\* a cycle that goes to the branch without update_positions
CycleAfterCheckNoUpdate(r, allocation, tks, prices_row, closest_date) ==
    CycleTrades(r.p, r.ret, allocation, tks, prices_row, closest_date)

\* the cycle after r = is_rebalancing_needed(...): update_positions, then
\* the branch
CycleAfterCheck(r, allocation, tks, prices_row, closest_date) ==
    CycleTrades(update_positions(r.p, prices_row, closest_date), r.ret,
                allocation, tks, prices_row, closest_date)

run_investment_cycle(p, allocation, frequency, tks, prices_row, closest_date, investment_date) ==
    CycleAfterCheck(is_rebalancing_needed(p, frequency, investment_date),
                    allocation, tks, prices_row, closest_date)

---------------------------------------------------------------------------
(* Inputs of the operations *)

\* rows of the price table, one per date
PriceRows ==
    { [t \in Tickers |-> 1000],
      [t \in Tickers |-> IF t = "A" THEN 800 ELSE 1000],
      [t \in Tickers |-> IF t = "A" THEN 1250 ELSE NaN] }

\* days between two dates the operations are called with
DaySteps == {30}

\* amounts deposited, withdrawn (add_cash of a negative amount) and paid as
\* dividend, cents
DepositAmounts == {15000}
WithdrawalAmounts == {-5000}
DividendAmounts == {125}

\* shares asked of buy_position and of sell_position
BuyShares == {RInt(10)}
SellShares == {Rat(1234, 1000), RInt(12)}

\* allocations the portfolio is configured with: 'equal', or the custom
\* weights 3 : 1 as InvestmentForecastingModel.__init__ normalizes them
Allocations ==
    { [kind |-> "equal", weights |-> <<>>],
      [kind |-> "custom",
       weights |-> NormalizeRounded([t \in Tickers |->
                                        IF t = "A" THEN RInt(3) ELSE RInt(1)])] }

\* bounds of the exploration
MaxDate == 60
MaxLots == 2
MaxTxns == 4
MaxDeposits == 1
MaxTradeTxns == 4
MaxTradeDate == 30
MaxCashEvents == 1
MaxTaxDate == 400

StartDate == 0

NumDeposits ==
    Cardinality({k \in 1..Len(transaction_history) :
                    transaction_history[k].type = "deposit"})

\* withdrawals and dividends in the log
NumCashEvents ==
    Cardinality({k \in 1..Len(transaction_history) :
                    transaction_history[k].type \in {"withdrawal", "dividend"}})

\* what is observed of an operation: its name and arguments, the length of
\* the transaction log and the ticker's shares when it was called, what it
\* returned, and for a cycle the branch it took
Observe(op) ==
    [op |-> op, ticker |-> "", shares |-> RZero, price |-> 0, amount |-> 0,
     excluded |-> {}, sold_tickers |-> <<>>, ret |-> "",
     rebalanced |-> FALSE, cash_before |-> cash,
     rebalance_before |-> last_rebalance_date,
     log_before |-> Len(transaction_history), held_before |-> RZero]

SetPortfolio(p) ==
    /\ cash' = p.cash
    /\ holdings' = p.holdings
    /\ transaction_history' = p.transaction_history
    /\ short_term_realized_gains' = p.short_term_realized_gains
    /\ short_term_realized_losses' = p.short_term_realized_losses
    /\ long_term_realized_gains' = p.long_term_realized_gains
    /\ long_term_realized_losses' = p.long_term_realized_losses
    /\ last_rebalance_date' = p.last_rebalance_date

\* Portfolio.__init__ followed by initialize_holdings(tickers)
InitPortfolio(tks, start_date) ==
    /\ tickers = tks
    /\ cash = 0
    /\ holdings = [t \in tks |-> EmptyHolding]
    /\ transaction_history = <<>>
    /\ short_term_realized_gains = 0
    /\ short_term_realized_losses = 0
    /\ long_term_realized_gains = 0
    /\ long_term_realized_losses = 0
    /\ last_rebalance_date = start_date

\* no simulation is running
NoDriver ==
    /\ investment_dates = <<>>
    /\ trading_days = {}
    /\ next_date = 0
    /\ portfolio_history = <<>>
    /\ calculated_weights = [t \in {} |-> RZero]

Init ==
    /\ InitPortfolio(Tickers, StartDate)
    /\ rebalance_frequency = "quarterly"
    /\ portfolio_allocation \in {a \in Allocations : a.kind = "equal"}
    /\ date = StartDate
    /\ date_prices \in PriceRows
    /\ NoDriver
    /\ last = Observe("init")

Config == <<rebalance_frequency, portfolio_allocation, tickers>>
Driver == <<investment_dates, trading_days, next_date, portfolio_history,
            calculated_weights>>

---------------------------------------------------------------------------
(* Operations on the ledger *)

\* the caller moves on to a later date of the price table
MoveOn(max_date) ==
    /\ \E step \in DaySteps, row \in PriceRows :
          /\ date + step <= max_date
          /\ date' = date + step
          /\ date_prices' = row
    /\ last' = Observe("next_day")
    /\ UNCHANGED <<cash, holdings, transaction_history,
                   short_term_realized_gains, short_term_realized_losses,
                   long_term_realized_gains, long_term_realized_losses,
                   last_rebalance_date, Config, Driver>>

NextDay == MoveOn(MaxDate)

\* the same within the shorter table of the trade and cash explorations
NextTradeDay == MoveOn(MaxTradeDate)

AddCash ==
    /\ NumDeposits < MaxDeposits
    /\ \E amount \in DepositAmounts :
          /\ SetPortfolio(add_cash(PortfolioState, amount, date,
                                   "Cash deposit"))
          /\ last' = [Observe("add_cash") EXCEPT !.amount = amount]
    /\ UNCHANGED <<Config, Driver, date, date_prices>>

\* add_cash with a negative amount
Withdraw ==
    /\ Len(transaction_history) < MaxTxns
    /\ NumCashEvents < MaxCashEvents
    /\ \E amount \in WithdrawalAmounts :
          /\ SetPortfolio(add_cash(PortfolioState, amount, date,
                                   "Cash deposit"))
          /\ last' = [Observe("add_cash") EXCEPT !.amount = amount]
    /\ UNCHANGED <<Config, Driver, date, date_prices>>

RecordDividend ==
    /\ Len(transaction_history) < MaxTxns
    /\ NumCashEvents < MaxCashEvents
    /\ \E ticker \in Tickers, amount \in DividendAmounts :
          /\ SetPortfolio(record_dividend(PortfolioState, ticker, amount,
                                          date, "Dividend payment"))
          /\ last' = [Observe("record_dividend") EXCEPT
                        !.ticker = ticker, !.amount = amount]
    /\ UNCHANGED <<Config, Driver, date, date_prices>>

Buy ==
    /\ Len(transaction_history) < MaxTxns
    /\ \E ticker \in Tickers, shares \in BuyShares :
          /\ date_prices[ticker] # NaN
          /\ Len(holdings[ticker].investments) < MaxLots
          /\ SetPortfolio(buy_position(PortfolioState, ticker, shares,
                                       date_prices[ticker], date, "Buy"))
          /\ last' = [Observe("buy") EXCEPT
                        !.ticker = ticker, !.shares = shares,
                        !.price = date_prices[ticker],
                        !.held_before = holdings[ticker].shares_remaining]
    /\ UNCHANGED <<Config, Driver, date, date_prices>>

Sell ==
    /\ Len(transaction_history) < MaxTxns
    /\ \E ticker \in Tickers, shares \in SellShares :
          /\ date_prices[ticker] # NaN
          /\ \E r \in {sell_position(PortfolioState, ticker, shares,
                                     date_prices[ticker], date, "Sell")} :
                 /\ SetPortfolio(r.p)
                 /\ last' = [Observe("sell") EXCEPT
                               !.ticker = ticker, !.shares = shares,
                               !.price = date_prices[ticker], !.ret = r.ret,
                               !.held_before =
                                   holdings[ticker].shares_remaining]
    /\ UNCHANGED <<Config, Driver, date, date_prices>>

UpdatePositions ==
    /\ SetPortfolio(update_positions(PortfolioState, date_prices, date))
    /\ last' = Observe("update_positions")
    /\ UNCHANGED <<Config, Driver, date, date_prices>>

Harvest ==
    /\ Len(transaction_history) < MaxTxns
    /\ \E r \in {track_and_manage_positions(PortfolioState, date_prices,
                                            date, SellTrigger)} :
           /\ SetPortfolio(r.p)
           /\ last' = [Observe("track_and_manage_positions") EXCEPT
                         !.sold_tickers = r.sold_tickers]
    /\ UNCHANGED <<Config, Driver, date, date_prices>>

Next ==
    \/ NextDay
    \/ AddCash
    \/ Buy
    \/ Sell
    \/ UpdatePositions
    \/ Harvest

Spec == Init /\ [][Next]_vars

---------------------------------------------------------------------------
(* The ledger with every operation that moves cash *)

NextCash ==
    \/ NextTradeDay
    \/ AddCash
    \/ Withdraw
    \/ RecordDividend
    \/ Buy
    \/ Sell
    \/ UpdatePositions
    \/ Harvest

SpecCash == Init /\ [][NextCash]_vars

---------------------------------------------------------------------------
(* The ledger over more than a year, for the short-term / long-term split *)

\* the caller moves on by the 365 days that make a lot long-term
NextYear ==
    /\ \E row \in PriceRows :
          /\ date + LongTermDays <= MaxTaxDate
          /\ date' = date + LongTermDays
          /\ date_prices' = row
    /\ last' = Observe("next_day")
    /\ UNCHANGED <<cash, holdings, transaction_history,
                   short_term_realized_gains, short_term_realized_losses,
                   long_term_realized_gains, long_term_realized_losses,
                   last_rebalance_date, Config, Driver>>

NextTax ==
    \/ NextTradeDay
    \/ NextYear
    \/ AddCash
    \/ Buy
    \/ Sell
    \/ UpdatePositions
    \/ Harvest

SpecTax == Init /\ [][NextTax]_vars

---------------------------------------------------------------------------
(* The ledger with share counts that are not multiples of 0.01 *)

\* shares asked of buy_position and of sell_position, to three and four
\* decimals
FractionBuyShares == {Rat(1236, 1000)}
FractionSellShares == {Rat(12351, 10000)}

\* portfolio.tickers of the runs: a ticker outside them has no holding
\* entry until it is bought
LotTickerSets == {{"A"}, {"A", "B"}}

InitLots ==
    /\ \E tks \in LotTickerSets : InitPortfolio(tks, StartDate)
    /\ rebalance_frequency = "quarterly"
    /\ portfolio_allocation \in {a \in Allocations : a.kind = "equal"}
    /\ date = StartDate
    /\ date_prices \in PriceRows
    /\ NoDriver
    /\ last = Observe("init")

BuyFraction ==
    /\ Len(transaction_history) < MaxTxns
    /\ \E ticker \in Tickers, shares \in FractionBuyShares :
          /\ date_prices[ticker] # NaN
          /\ ticker \in DOMAIN holdings
                 => Len(holdings[ticker].investments) < MaxLots
          /\ SetPortfolio(buy_position(PortfolioState, ticker, shares,
                                       date_prices[ticker], date, "Buy"))
          /\ last' = [Observe("buy") EXCEPT
                        !.ticker = ticker, !.shares = shares,
                        !.price = date_prices[ticker],
                        !.held_before =
                            IF ticker \in DOMAIN holdings
                            THEN holdings[ticker].shares_remaining
                            ELSE RZero]
    /\ UNCHANGED <<Config, Driver, date, date_prices>>

SellFraction ==
    /\ Len(transaction_history) < MaxTxns
    /\ \E ticker \in Tickers, shares \in FractionSellShares :
          /\ date_prices[ticker] # NaN
          /\ \E r \in {sell_position(PortfolioState, ticker, shares,
                                     date_prices[ticker], date, "Sell")} :
                 /\ SetPortfolio(r.p)
                 /\ last' = [Observe("sell") EXCEPT
                               !.ticker = ticker, !.shares = shares,
                               !.price = date_prices[ticker], !.ret = r.ret,
                               !.held_before =
                                   IF ticker \in DOMAIN holdings
                                   THEN holdings[ticker].shares_remaining
                                   ELSE RZero]
    /\ UNCHANGED <<Config, Driver, date, date_prices>>

NextLots ==
    \/ NextTradeDay
    \/ AddCash
    \/ BuyFraction
    \/ SellFraction
    \/ UpdatePositions
    \/ Harvest

SpecLots == InitLots /\ [][NextLots]_vars

---------------------------------------------------------------------------
(* Operations of the allocation engine and the rebalancing policy *)

\* room left in the exploration for the trades of one call
TradeRoom ==
    /\ Len(transaction_history) < MaxTradeTxns
    /\ \A t \in DOMAIN holdings : Len(holdings[t].investments) < MaxLots

InvestAvailableCash ==
    /\ TradeRoom
    /\ \E excluded_tickers \in SUBSET tickers :
          /\ SetPortfolio(invest_available_cash(PortfolioState,
                 calculate_allocation_weights(portfolio_allocation, tickers),
                 date_prices, date, excluded_tickers))
          /\ last' = [Observe("invest_available_cash") EXCEPT
                        !.excluded = excluded_tickers]
    /\ UNCHANGED <<Config, Driver, date, date_prices>>

PerformRebalance ==
    /\ TradeRoom
    /\ \E excluded_tickers \in SUBSET Tickers :
          /\ SetPortfolio(perform_rebalance(PortfolioState,
                 portfolio_allocation, tickers, date_prices, date,
                 excluded_tickers))
          /\ last' = [Observe("perform_rebalance") EXCEPT
                        !.excluded = excluded_tickers]
    /\ UNCHANGED <<Config, Driver, date, date_prices>>

\* _run_investment_cycle(closest_date, investment_date) on the current date
RunInvestmentCycle ==
    /\ TradeRoom
    /\ \E r \in {run_investment_cycle(PortfolioState, portfolio_allocation,
                    rebalance_frequency, tickers, date_prices, date, date)} :
           /\ SetPortfolio(r.p)
           /\ last' = [Observe("run_investment_cycle") EXCEPT
                         !.rebalanced = r.rebalanced,
                         !.sold_tickers = r.sold_tickers]
    /\ UNCHANGED <<Config, Driver, date, date_prices>>

TradeFrequencies == {"monthly"}

InitTrade ==
    /\ InitPortfolio(Tickers, StartDate)
    /\ rebalance_frequency \in TradeFrequencies
    /\ portfolio_allocation \in Allocations
    /\ date = StartDate
    /\ date_prices \in PriceRows
    /\ NoDriver
    /\ last = Observe("init")

NextTrade ==
    \/ NextTradeDay
    \/ AddCash
    \/ Buy
    \/ InvestAvailableCash
    \/ PerformRebalance
    \/ RunInvestmentCycle

SpecTrade == InitTrade /\ [][NextTrade]_vars

---------------------------------------------------------------------------
(* perform_rebalance on small positions and on tickers outside the target *)

\* portfolio.tickers of the runs: the target allocation may leave out a
\* ticker that is bought all the same
RebalanceTickerSets == {{"A"}, {"A", "B"}}

\* amounts deposited, cents
RebalanceDepositAmounts == {20, 15000}

InitRebalance ==
    /\ \E tks \in RebalanceTickerSets : InitPortfolio(tks, StartDate)
    /\ rebalance_frequency = "quarterly"
    /\ portfolio_allocation \in {a \in Allocations : a.kind = "equal"}
    /\ date = StartDate
    /\ date_prices \in PriceRows
    /\ NoDriver
    /\ last = Observe("init")

AddRebalanceCash ==
    /\ NumDeposits < MaxDeposits
    /\ \E amount \in RebalanceDepositAmounts :
          /\ SetPortfolio(add_cash(PortfolioState, amount, date,
                                   "Cash deposit"))
          /\ last' = [Observe("add_cash") EXCEPT !.amount = amount]
    /\ UNCHANGED <<Config, Driver, date, date_prices>>

\* buy_position of a ticker that may have no holding entry yet
BuyAny ==
    /\ Len(transaction_history) < MaxTradeTxns
    /\ \E ticker \in Tickers, shares \in BuyShares :
          /\ date_prices[ticker] # NaN
          /\ ticker \in DOMAIN holdings
                 => Len(holdings[ticker].investments) < MaxLots
          /\ SetPortfolio(buy_position(PortfolioState, ticker, shares,
                                       date_prices[ticker], date, "Buy"))
          /\ last' = [Observe("buy") EXCEPT
                        !.ticker = ticker, !.shares = shares,
                        !.price = date_prices[ticker]]
    /\ UNCHANGED <<Config, Driver, date, date_prices>>

NextRebalance ==
    \/ NextTradeDay
    \/ AddRebalanceCash
    \/ BuyAny
    \/ PerformRebalance

SpecRebalance == InitRebalance /\ [][NextRebalance]_vars

---------------------------------------------------------------------------
(* The simulation driver: run_simulation, _process_investment_dates *)

\* utils/date_utils.py: generate_investment_dates with frequency 'monthly'
RECURSIVE MonthlyDatesAfter(_, _)
MonthlyDatesAfter(current, end_date) ==
    IF current < end_date /\ current + DaysPerMonth <= end_date
    THEN <<current + DaysPerMonth>>
             \o MonthlyDatesAfter(current + DaysPerMonth, end_date)
    ELSE <<>>

generate_investment_dates(start_date, end_date) ==
    <<start_date>> \o MonthlyDatesAfter(start_date, end_date)

\* Portfolio.update_portfolio_history
update_portfolio_history(history, p, prices_row, closest_date) ==
    LET portfolio_value == calculate_total_value(p, prices_row)
    IN  Append(history,
               [date |-> closest_date,
                cash |-> p.cash,
                investments_value |-> RSub(portfolio_value, RInt(p.cash)),
                total_value |-> portfolio_value])

\* config: amounts in cents, dates, frequencies and ticker lists of the runs
InitialInvestment == 10000000
RecurringInvestment == 100000
DriverStartDates == {0, 60}
DriverFrequencies == {"monthly", "quarterly", "yearly"}
DriverTickerSets == {{"A"}, {"A", "B"}}
\* number of months between start_date and end_date
MaxMonths == 2

\* rows of the price table of the runs
DriverPriceRows ==
    { [t \in Tickers |-> 10000],
      [t \in Tickers |-> IF t = "A" THEN 5000 ELSE 10000] }

\* price indexes of the runs: one without two days of each week, one
\* without the days around the second investment date
Horizon == 200
DriverIndexes ==
    { {d \in 0..Horizon : d % 7 \notin {2, 3}},
      {d \in 0..Horizon : d % DaysPerMonth \in 6..24} \cup {0, 60} }

InitDriver ==
    /\ \E tks \in DriverTickerSets, start_date \in DriverStartDates :
          /\ InitPortfolio(tks, start_date)
          /\ investment_dates =
                 generate_investment_dates(start_date,
                     start_date + MaxMonths * DaysPerMonth)
          /\ date = start_date
    /\ rebalance_frequency \in DriverFrequencies
    /\ portfolio_allocation \in {a \in Allocations : a.kind = "equal"}
    /\ trading_days \in DriverIndexes
    /\ date_prices = [t \in Tickers |-> NaN]
    /\ next_date = 0
    /\ portfolio_history = <<>>
    /\ calculated_weights = [t \in {} |-> RZero]
    /\ last = Observe("init")

\* _make_initial_investment(investment_dates[0])
MakeInitialInvestment ==
    /\ next_date = 0
    /\ SetPortfolio(add_cash(PortfolioState, InitialInvestment,
                             investment_dates[1], "Initial investment"))
    /\ next_date' = 1
    /\ last' = Observe("make_initial_investment")
    /\ UNCHANGED <<Config, investment_dates, trading_days, portfolio_history,
                   calculated_weights, date, date_prices>>

\* one pass of the loop of _process_investment_dates that finds a trading day
ProcessInvestmentDate ==
    /\ next_date \in 1..Len(investment_dates)
    /\ LET investment_date == investment_dates[next_date]
           closest_date == get_closest_trading_day(investment_date,
                                                   trading_days)
       IN  /\ closest_date # NoDate
           /\ \E row \in DriverPriceRows :
                \E r \in {run_investment_cycle(
                             IF next_date - 1 > 0
                             THEN add_cash(PortfolioState, RecurringInvestment,
                                      investment_date, "Monthly investment")
                             ELSE PortfolioState,
                             portfolio_allocation, rebalance_frequency,
                             tickers, row, closest_date, investment_date)} :
                    /\ SetPortfolio(r.p)
                    /\ portfolio_history' =
                           update_portfolio_history(portfolio_history, r.p,
                                                    row, closest_date)
                    /\ date' = closest_date
                    /\ date_prices' = row
                    /\ last' = [Observe("process_investment_date") EXCEPT
                                  !.rebalanced = r.rebalanced,
                                  !.sold_tickers = r.sold_tickers]
    /\ next_date' = next_date + 1
    /\ UNCHANGED <<Config, investment_dates, trading_days, calculated_weights>>

\* one pass of the loop that finds no trading day within 5 days: continue
SkipInvestmentDate ==
    /\ next_date \in 1..Len(investment_dates)
    /\ get_closest_trading_day(investment_dates[next_date], trading_days)
           = NoDate
    /\ next_date' = next_date + 1
    /\ last' = Observe("skip_investment_date")
    /\ UNCHANGED <<cash, holdings, transaction_history,
                   short_term_realized_gains, short_term_realized_losses,
                   long_term_realized_gains, long_term_realized_losses,
                   last_rebalance_date, Config, investment_dates, trading_days,
                   portfolio_history, calculated_weights, date, date_prices>>

NextDriver ==
    \/ MakeInitialInvestment
    \/ ProcessInvestmentDate
    \/ SkipInvestmentDate

SpecDriver == InitDriver /\ [][NextDriver]_vars

---------------------------------------------------------------------------
(* is_rebalancing_needed on dates of several years *)

\* investment dates and last_rebalance_dates: day numbers in three years
CadenceDates == {0, 30, 60, 90, 330, 360, 420, 700, 720}
CadenceFrequencies == {"monthly", "quarterly", "yearly"}
CadenceTickerSets == {{}, {"A"}, {"A", "B"}}

InitCadence ==
    /\ \E tks \in CadenceTickerSets, start_date \in CadenceDates :
          /\ InitPortfolio(tks, start_date)
          /\ date = start_date
    /\ rebalance_frequency \in CadenceFrequencies
    /\ portfolio_allocation \in {a \in Allocations : a.kind = "equal"}
    /\ date_prices = [t \in Tickers |-> NaN]
    /\ NoDriver
    /\ last = Observe("init")

\* is_rebalancing_needed(portfolio, investment_date)
IsRebalancingNeeded ==
    /\ \E investment_date \in CadenceDates :
          \E r \in {is_rebalancing_needed(PortfolioState, rebalance_frequency,
                                          investment_date)} :
              /\ SetPortfolio(r.p)
              /\ date' = investment_date
              /\ last' = [Observe("is_rebalancing_needed") EXCEPT
                            !.rebalanced = r.ret]
    /\ UNCHANGED <<Config, Driver, date_prices>>

NextCadence == IsRebalancingNeeded

SpecCadence == InitCadence /\ [][NextCadence]_vars

---------------------------------------------------------------------------
(* get_closest_trading_day on every price index around a date *)

\* the dates looked up, and how far around them the index may have rows
ClosestTargets == {10}
MaxOffset == 6

InitClosest ==
    /\ InitPortfolio(Tickers, StartDate)
    /\ rebalance_frequency = "quarterly"
    /\ portfolio_allocation \in {a \in Allocations : a.kind = "equal"}
    /\ date \in ClosestTargets
    /\ date_prices = [t \in Tickers |-> NaN]
    /\ investment_dates = <<>>
    /\ trading_days \in SUBSET ((date - MaxOffset)..(date + MaxOffset))
    /\ next_date = 0
    /\ portfolio_history = <<>>
    /\ calculated_weights = [t \in {} |-> RZero]
    /\ last = Observe("init")

\* get_closest_trading_day(date, prices_df); what it returned is kept in
\* last.ret
GetClosestTradingDay ==
    /\ last.op = "init"
    /\ last' = [Observe("get_closest_trading_day") EXCEPT
                  !.ret = get_closest_trading_day(date, trading_days)]
    /\ UNCHANGED <<cash, holdings, transaction_history,
                   short_term_realized_gains, short_term_realized_losses,
                   long_term_realized_gains, long_term_realized_losses,
                   last_rebalance_date, Config, Driver, date, date_prices>>

NextClosest == GetClosestTradingDay

SpecClosest == InitClosest /\ [][NextClosest]_vars

---------------------------------------------------------------------------
(* calculate_allocation_weights on custom allocations *)

AllocTickers == {"A", "B", "C", "D", "E"}
MaxRawWeight == 3

InitAlloc ==
    /\ \E tks \in SUBSET AllocTickers :
          /\ tks # {}
          /\ InitPortfolio(tks, StartDate)
          /\ \E raw \in [tks -> 1..MaxRawWeight] :
                portfolio_allocation =
                    [kind |-> "custom", weights |-> [t \in tks |-> RInt(raw[t])]]
    /\ rebalance_frequency = "quarterly"
    /\ date = StartDate
    /\ date_prices = [t \in Tickers |-> NaN]
    /\ NoDriver
    /\ last = Observe("init")

CalculateAllocationWeights ==
    /\ last.op = "init"
    /\ calculated_weights' =
           calculate_allocation_weights(portfolio_allocation, tickers)
    /\ last' = Observe("calculate_allocation_weights")
    /\ UNCHANGED <<cash, holdings, transaction_history,
                   short_term_realized_gains, short_term_realized_losses,
                   long_term_realized_gains, long_term_realized_losses,
                   last_rebalance_date, Config, investment_dates, trading_days,
                   next_date, portfolio_history, date, date_prices>>

NextAlloc == CalculateAllocationWeights

SpecAlloc == InitAlloc /\ [][NextAlloc]_vars

---------------------------------------------------------------------------
(* invest_available_cash on portfolios of three tickers *)

InvestTickers == {"A", "B", "C"}

\* 'equal', and the custom weights a : b : c as __init__ normalizes them
InvestAllocations ==
    { [kind |-> "equal", weights |-> <<>>] }
        \cup { [kind |-> "custom",
                weights |-> NormalizeRounded([t \in InvestTickers |->
                                                 RInt(raw[t])])] :
                   raw \in [InvestTickers -> 1..MaxRawWeight] }

\* rows of the price table: every ticker at $1.00, or one ticker unpriced
InvestPriceRows ==
    { [t \in InvestTickers |-> 100],
      [t \in InvestTickers |->
          IF t = "A" THEN 1000 ELSE IF t = "B" THEN 100 ELSE NaN] }

InitInvest ==
    /\ InitPortfolio(InvestTickers, StartDate)
    /\ rebalance_frequency = "quarterly"
    /\ portfolio_allocation \in InvestAllocations
    /\ date = StartDate
    /\ date_prices \in InvestPriceRows
    /\ NoDriver
    /\ last = Observe("init")

\* amounts deposited before the cash is invested, cents
InvestDepositAmounts == {100000}

AddInvestCash ==
    /\ NumDeposits < MaxDeposits
    /\ \E amount \in InvestDepositAmounts :
          /\ SetPortfolio(add_cash(PortfolioState, amount, date,
                                   "Cash deposit"))
          /\ last' = [Observe("add_cash") EXCEPT !.amount = amount]
    /\ UNCHANGED <<Config, Driver, date, date_prices>>

NextInvest ==
    \/ AddInvestCash
    \/ InvestAvailableCash

SpecInvest == InitInvest /\ [][NextInvest]_vars

---------------------------------------------------------------------------
(* Properties of the ledger *)

RECURSIVE SumActiveShares(_, _)
SumActiveShares(investments, i) ==
    IF i > Len(investments) THEN RZero
    ELSE RAdd(IF investments[i].sold THEN RZero
              ELSE investments[i].shares_remaining,
              SumActiveShares(investments, i + 1))

\* sum of unit cost x shares_remaining over the active lots, cents
RECURSIVE SumActiveCost(_, _)
SumActiveCost(investments, i) ==
    IF i > Len(investments) THEN RZero
    ELSE RAdd(IF investments[i].sold THEN RZero
              ELSE RMul(RInt(investments[i].price),
                        investments[i].shares_remaining),
              SumActiveCost(investments, i + 1))

\* the entries the last operation appended to the transaction log
NewTxns == SubSeq(transaction_history, last.log_before + 1,
                  Len(transaction_history))

\* C1: after every operation, the holding's shares_remaining equals the sum
\* of shares_remaining over the ticker's active (sold = False) lots.
C1_HoldingEqualsActiveLots ==
    \A t \in DOMAIN holdings :
        holdings[t].shares_remaining
            = SumActiveShares(holdings[t].investments, 1)

NoNegativeShares ==
    \A t \in DOMAIN holdings :
        /\ RGe(holdings[t].shares_remaining, RZero)
        /\ \A i \in 1..Len(holdings[t].investments) :
              RGe(holdings[t].investments[i].shares_remaining, RZero)

\* C2: a sell_position call whose shares_to_sell exceeds the shares held
\* leaves neither the holding's shares_remaining nor any lot's
\* shares_remaining negative.
C2_OversellNeverNegative ==
    (last.op = "sell" /\ RGt(last.shares, last.held_before))
        => NoNegativeShares

\* the lot a sell transaction consumed
LotOf(x) == holdings[x.ticker].investments[x.lot]

\* the order of the selling queue between two consumed lots at a sale price
QueueOrder(a, b, price) ==
    \/ a.price > price /\ b.price <= price
    \/ a.price > price /\ b.price > price /\ a.price >= b.price
    \/ a.price <= price /\ b.price <= price /\ a.date <= b.date

C4_HarvestOnlyAtOrBelowTrigger ==
    last.op = "track_and_manage_positions" =>
        \A a \in 1..Len(NewTxns) :
            ReturnPct(LotOf(NewTxns[a]), NewTxns[a].shares,
                      date_prices[NewTxns[a].ticker]) <= SellTrigger

\* the one lot of the single-ticker run: bought at $100 in the first
\* processed cycle, the ticker at $50 in the second processed cycle
C5_Scenario ==
    /\ last.op = "process_investment_date"
    /\ tickers = {"A"}
    /\ Len(portfolio_history) = 2
    /\ date_prices["A"] = 5000
    /\ Len(holdings["A"].investments) >= 1
    /\ holdings["A"].investments[1].price = 10000
    /\ holdings["A"].investments[1].date = portfolio_history[1].date

\* the lot was harvested by the last cycle, at the loss shares x (50 - 100),
\* booked as a short-term loss when held fewer than 365 days
C5_Harvested ==
    LET lot == holdings["A"].investments[1]
    IN  /\ lot.sold
        /\ \E a \in 1..Len(NewTxns) :
              LET x == NewTxns[a]
              IN  /\ x.type = "sell"
                  /\ x.ticker = "A"
                  /\ x.lot = 1
                  /\ x.description = "tax-loss harvesting"
                  /\ RInt(x.gain_loss) = RMul(x.shares, RInt(5000 - 10000))
                  /\ x.days_held < LongTermDays
                         => short_term_realized_losses = x.gain_loss

\* C5 as stated: in the single-ticker run the lot bought at $100 is
\* harvested in the next processed cycle, where the price is $50; the loss
\* recorded is shares x (50 - 100) and it is added to
\* short_term_realized_losses when the lot was held fewer than 365 days.
C5_HarvestedNextCycle == C5_Scenario => C5_Harvested

\* C5, amended: the same, provided the next processed cycle is not a
\* rebalance cycle (is_rebalancing_needed returned false for its date).
C5_HarvestedNextCycleUnlessRebalance ==
    (C5_Scenario /\ ~last.rebalanced) => C5_Harvested

\* the second processed cycle of the single-ticker run harvested the lot
C5_Witness == C5_Scenario /\ ~last.rebalanced /\ C5_Harvested

\* C6: the weights calculate_allocation_weights returns for a non-empty
\* mapping of positive raw weights sum to a value in [0.9999, 1.0001].
C6_WeightsSumToOne ==
    last.op = "calculate_allocation_weights" =>
        LET total == SumWeights(calculated_weights, DOMAIN calculated_weights)
        IN  /\ RGe(total, Rat(9999, 10000))
            /\ RLe(total, Rat(10001, 10000))

\* C7: buy_position deducts at most the cash on hand, and cash is >= 0 after
\* every buy and after any sequence of deposits, invest_available_cash,
\* harvest and rebalance steps.
C7_CashNeverNegative ==
    /\ cash >= 0
    /\ last.op = "buy" =>
           \A a \in 1..Len(NewTxns) : -NewTxns[a].amount <= last.cash_before

\* a buy whose shares x price exceeded the cash on hand and was reduced
C7_Witness ==
    /\ last.op = "buy"
    /\ last.cash_before > 0
    /\ RoundCents(last.shares, last.price) > last.cash_before
    /\ Len(NewTxns) = 1
    /\ RLt(NewTxns[1].shares, last.shares)

\* tickers with a lot harvested by the last operation
HarvestedTickers ==
    {NewTxns[a].ticker : a \in {b \in 1..Len(NewTxns) :
        /\ NewTxns[b].type = "sell"
        /\ NewTxns[b].description = "tax-loss harvesting"}}

\* tickers the last operation bought
BoughtTickers ==
    {NewTxns[a].ticker : a \in {b \in 1..Len(NewTxns) :
        NewTxns[b].type = "buy"}}

\* C8: invest_available_cash never buys a ticker in excluded_tickers, and a
\* non-rebalance cycle records no buy for a ticker that had a lot harvested
\* in the same cycle.
C8_NoBuyOfExcluded ==
    /\ last.op = "invest_available_cash"
           => BoughtTickers \cap last.excluded = {}
    /\ (last.op = "run_investment_cycle" /\ ~last.rebalanced)
           => BoughtTickers \cap HarvestedTickers = {}

\* a non-rebalance cycle that harvested one ticker and bought another
C8_Witness ==
    /\ last.op = "run_investment_cycle"
    /\ ~last.rebalanced
    /\ HarvestedTickers # {}
    /\ BoughtTickers # {}

\* C9: perform_rebalance records no buy transaction for a ticker contained
\* in excluded_tickers.
C9_RebalanceNeverBuysExcluded ==
    last.op = "perform_rebalance" => BoughtTickers \cap last.excluded = {}

\* a rebalance with an exclusion list that bought another ticker
C9_Witness ==
    /\ last.op = "perform_rebalance"
    /\ last.excluded # {}
    /\ BoughtTickers # {}

\* C10: while a ticker has an active lot, the holding's cost_basis is the
\* weighted-average unit cost over the active lots: cost_basis x
\* shares_remaining = sum of unit_cost x shares_remaining over active lots.
C10_CostBasisIsActiveAverage ==
    \A t \in DOMAIN holdings :
        ActiveInvestments(holdings[t].investments) # {}
            => RMul(CostBasisValue(holdings[t].cost_basis),
                    holdings[t].shares_remaining)
                   = SumActiveCost(holdings[t].investments, 1)

---------------------------------------------------------------------------
(* Properties of the cash account *)

\* what an entry of the log says it did to cash
SignedAmount(x) == IF x.type = "withdrawal" THEN -x.amount ELSE x.amount

\* the sum of SignedAmount over the first k entries of a log
RECURSIVE LedgerCash(_, _)
LedgerCash(log, k) ==
    IF k = 0 THEN 0 ELSE LedgerCash(log, k - 1) + SignedAmount(log[k])

---------------------------------------------------------------------------
(* Properties of the end-to-end run *)

\* sum of the deposit entries of the log made for investment dates up to d
RECURSIVE DepositsUpTo(_, _, _)
DepositsUpTo(log, k, d) ==
    IF k = 0 THEN 0
    ELSE DepositsUpTo(log, k - 1, d)
             + (IF log[k].type = "deposit" /\ log[k].date <= d
                THEN log[k].amount ELSE 0)

\* calculate_performance_metrics: total_return_pct, as a rational
total_return_pct ==
    LET deposits == DepositsUpTo(transaction_history,
                                 Len(transaction_history), Horizon)
        final_value == portfolio_history[Len(portfolio_history)].total_value
    IN  IF deposits > 0
        THEN RMul(RSub(RDiv(final_value, RInt(deposits)), RInt(1)), RInt(100))
        ELSE RZero

\* the run of two tickers at a flat $100 with equal allocation in which no
\* cycle so far rebalanced or harvested
C12_Scenario ==
    /\ Len(portfolio_history) > 0
    /\ tickers = {"A", "B"}
    /\ portfolio_allocation.kind = "equal"
    /\ date_prices = [t \in Tickers |-> 10000]
    /\ \A t \in tickers : \A i \in 1..Len(holdings[t].investments) :
          holdings[t].investments[i].price = 10000
    /\ last_rebalance_date = investment_dates[1]
    /\ \A k \in 1..Len(transaction_history) :
          transaction_history[k].type # "sell"

\* what truncating a purchase to 0.01 share can leave uninvested: less than
\* the price of 0.01 share of each ticker, and a cent of each amount
TruncationRemainder == 2 * ((10000 \div 100) + 1)

\* C12: in the flat-price run of two tickers with equal allocation, with no
\* harvest and no rebalance, every history snapshot has total_value equal to
\* the deposits made so far and cash within the truncation remainder of $0,
\* and total_return_pct is 0.
C12_FlatRunKeepsDeposits ==
    C12_Scenario =>
        /\ \A k \in 1..Len(portfolio_history) :
              /\ portfolio_history[k].total_value
                     = RInt(DepositsUpTo(transaction_history,
                                         Len(transaction_history),
                                         portfolio_history[k].date
                                             + SearchDays))
              /\ portfolio_history[k].cash >= 0
              /\ portfolio_history[k].cash <= TruncationRemainder
        /\ total_return_pct = RZero

\* the flat run after its third cycle, the initial investment and two
\* monthly contributions invested
C12_Witness ==
    /\ C12_Scenario
    /\ Len(portfolio_history) = 3
    /\ portfolio_history[3].total_value
           = RInt(InitialInvestment + 2 * RecurringInvestment)
    /\ Len(holdings["A"].investments) = 3
    /\ Len(holdings["B"].investments) = 3

---------------------------------------------------------------------------
(* Properties of the single operations *)

\* the buy_position call the step made had the cash for shares x price
SufficientCashBuy ==
    /\ last'.op = "buy"
    /\ RGt(last'.shares, RZero)
    /\ last'.price > 0
    /\ RoundCents(last'.shares, last'.price) <= cash

\* what the step did to the ticker, the cash and the log
BuyEffect ==
    LET t == last'.ticker
        cost == RoundCents(last'.shares, last'.price)
        old == holdings[t].investments
        new == holdings'[t].investments
    IN  /\ Len(new) = Len(old) + 1
        /\ SubSeq(new, 1, Len(old)) = old
        /\ new[Len(new)].initial_shares_purchased = last'.shares
        /\ new[Len(new)].shares_remaining = last'.shares
        /\ new[Len(new)].price = last'.price
        /\ new[Len(new)].cost = cost
        /\ new[Len(new)].sold = FALSE
        /\ holdings'[t].shares_remaining
               = RAdd(holdings[t].shares_remaining, last'.shares)
        /\ \A u \in DOMAIN holdings \ {t} : holdings'[u] = holdings[u]
        /\ cash' = cash - cost
        /\ Len(transaction_history') = Len(transaction_history) + 1
        /\ SubSeq(transaction_history', 1, Len(transaction_history))
               = transaction_history
        /\ LET x == transaction_history'[Len(transaction_history')]
           IN  /\ x.type = "buy"
               /\ x.ticker = t
               /\ x.shares = last'.shares
               /\ x.amount = -cost

\* C13: a buy_position call for shares > 0 at price > 0 with sufficient cash
\* creates exactly one new lot (initial = remaining = shares, unit price =
\* price, cost = round(shares x price, 2), sold = False), raises the
\* holding's shares_remaining by shares, lowers cash by the cost and appends
\* exactly one buy entry with those shares and amount = -cost; the lots that
\* were there are neither merged nor changed.
C13_BuyCreatesOneLot == [][SufficientCashBuy => BuyEffect]_vars

\* a sufficiently funded buy of a ticker that already had a lot
C13_Witness ==
    /\ last.op = "buy"
    /\ RoundCents(last.shares, last.price) <= last.cash_before
    /\ Len(NewTxns) = 1
    /\ Len(holdings[last.ticker].investments) = 2
    /\ holdings[last.ticker].investments[1].price # last.price

\* sum of the shares recorded in the first k entries of a log
RECURSIVE SumTxnShares(_, _)
SumTxnShares(log, k) ==
    IF k = 0 THEN RZero ELSE RAdd(SumTxnShares(log, k - 1), log[k].shares)

\* C14: sell_position appends exactly one sell entry for every lot it
\* consumed, with proceeds = round(sold_shares x price, 2) and gain_loss =
\* round(proceeds - sold_shares x unit_cost, 2); cash rises by the sum of the
\* proceeds, and the holding's shares_remaining falls by the sum of the
\* shares recorded in those entries.
C14_SellRecordsEveryLot ==
    last.op = "sell" =>
        /\ \A a \in 1..Len(NewTxns) :
              LET x == NewTxns[a]
              IN  /\ x.type = "sell"
                  /\ x.ticker = last.ticker
                  /\ x.amount = RoundCents(x.shares, last.price)
                  /\ x.gain_loss =
                         RRound(RSub(RInt(x.amount),
                                     RMul(x.shares, RInt(LotOf(x).price))))
                  /\ \A b \in 1..Len(NewTxns) : NewTxns[b].lot = x.lot => b = a
        /\ cash = last.cash_before + LedgerCash(NewTxns, Len(NewTxns))
        /\ holdings[last.ticker].shares_remaining
               = RSub(last.held_before, SumTxnShares(NewTxns, Len(NewTxns)))

---------------------------------------------------------------------------
(* Properties of the realized gain and loss buckets *)

\* sum of gain_loss over the sell entries among the first k of a log whose
\* days_held and sign put them in the bucket (long, gain)
RECURSIVE BucketSum(_, _, _, _)
BucketSum(log, k, long, gain) ==
    IF k = 0 THEN 0
    ELSE BucketSum(log, k - 1, long, gain)
             + (IF /\ log[k].type = "sell"
                   /\ (log[k].days_held >= LongTermDays) = long
                   /\ (log[k].gain_loss > 0) = gain
                THEN log[k].gain_loss ELSE 0)

\* C15: every realized gain_loss of sell_position and of harvesting is added
\* to exactly the bucket chosen by the lot's days_held (< 365 short-term,
\* >= 365 long-term) and by its sign, so each bucket is the sum of the
\* gain_loss of the sell entries of its kind; the four buckets sum to the
\* gain_loss of all sell entries, gain buckets are never negative and loss
\* buckets never positive.
C15_BucketsPartitionGains ==
    LET n == Len(transaction_history)
    IN  /\ short_term_realized_gains
               = BucketSum(transaction_history, n, FALSE, TRUE)
        /\ short_term_realized_losses
               = BucketSum(transaction_history, n, FALSE, FALSE)
        /\ long_term_realized_gains
               = BucketSum(transaction_history, n, TRUE, TRUE)
        /\ long_term_realized_losses
               = BucketSum(transaction_history, n, TRUE, FALSE)
        /\ short_term_realized_gains >= 0
        /\ long_term_realized_gains >= 0
        /\ short_term_realized_losses <= 0
        /\ long_term_realized_losses <= 0

\* a sale or a harvest that realized a long-term amount after a short-term
\* amount had been realized
C15_Witness ==
    /\ last.op \in {"sell", "track_and_manage_positions"}
    /\ \E a \in 1..Len(NewTxns) :
          /\ NewTxns[a].days_held >= LongTermDays
          /\ NewTxns[a].gain_loss # 0
    /\ short_term_realized_gains + short_term_realized_losses # 0

---------------------------------------------------------------------------
(* Properties of the rebalancing cadence *)

\* the number of the month, quarter or year a date lies in
PeriodIndex(frequency, d) ==
    IF frequency = "monthly" THEN YearOf(d) * MonthsPerYear + MonthOf(d)
    ELSE IF frequency = "quarterly" THEN YearOf(d) * 4 + QuarterOf(d)
    ELSE YearOf(d)

\* the date the last call was given lies in a later period than the
\* last_rebalance_date the call found
LaterPeriod ==
    PeriodIndex(rebalance_frequency, date)
        > PeriodIndex(rebalance_frequency, last.rebalance_before)

\* what the last call of is_rebalancing_needed did, given it was due
CadenceEffect ==
    /\ last.rebalanced <=> LaterPeriod
    /\ last.rebalanced => last_rebalance_date = date
    /\ ~last.rebalanced => last_rebalance_date = last.rebalance_before

\* C16 as stated: is_rebalancing_needed returns true exactly when
\* investment_date lies in a later period than last_rebalance_date (month or
\* year for 'monthly', quarter or year for 'quarterly', year for 'yearly');
\* returning true it sets last_rebalance_date to investment_date, returning
\* false it leaves last_rebalance_date unchanged.
C16_TrueExactlyInLaterPeriod ==
    last.op = "is_rebalancing_needed" => CadenceEffect

\* C16, amended: the same for a portfolio whose holdings dictionary is not
\* empty; with no holdings the call returns None and changes nothing.
C16_TrueExactlyInLaterPeriodWithHoldings ==
    last.op = "is_rebalancing_needed" =>
        IF DOMAIN holdings # {} THEN CadenceEffect
        ELSE ~last.rebalanced /\ last_rebalance_date = last.rebalance_before

\* a call that was due through the year alone: a later year, an earlier
\* month
C16_Witness ==
    /\ last.op = "is_rebalancing_needed"
    /\ DOMAIN holdings # {}
    /\ last.rebalanced
    /\ YearOf(date) > YearOf(last.rebalance_before)
    /\ MonthOf(date) < MonthOf(last.rebalance_before)
    /\ last_rebalance_date = date

---------------------------------------------------------------------------
(* Properties of the skipped cycles *)

\* no day of the price index lies within 5 calendar days of d
NoTradingDayNear(d) ==
    \A k \in -SearchDays..SearchDays : d + k \notin trading_days

\* the investment dates among the first k that have a trading day near
RECURSIVE ProcessedDates(_)
ProcessedDates(k) ==
    IF k = 0 THEN <<>>
    ELSE IF NoTradingDayNear(investment_dates[k]) THEN ProcessedDates(k - 1)
    ELSE Append(ProcessedDates(k - 1), investment_dates[k])

\* the history has one entry for each processed investment date among those
\* the loop has passed, each dated within 5 days of it, in date order
HistoryOnePerProcessedDate ==
    LET processed == ProcessedDates(IF next_date = 0 THEN 0 ELSE next_date - 1)
    IN  /\ Len(portfolio_history) = Len(processed)
        /\ \A j \in 1..Len(portfolio_history) :
              /\ portfolio_history[j].date >= processed[j] - SearchDays
              /\ portfolio_history[j].date <= processed[j] + SearchDays
        /\ \A i, j \in 1..Len(portfolio_history) :
              i < j => portfolio_history[i].date < portfolio_history[j].date

\* a pass of the loop over a date with no trading day near changes nothing
\* of the portfolio and appends no snapshot
SkippedCycleChangesNothing ==
    (/\ next_date \in 1..Len(investment_dates)
     /\ next_date' = next_date + 1
     /\ NoTradingDayNear(investment_dates[next_date]))
        => UNCHANGED <<cash, holdings, transaction_history,
                       short_term_realized_gains, short_term_realized_losses,
                       long_term_realized_gains, long_term_realized_losses,
                       last_rebalance_date, portfolio_history>>

\* C17: when no trading day lies within 5 calendar days of an investment
\* date the cycle is skipped entirely (no recurring deposit, no trade,
\* last_rebalance_date unchanged, no snapshot), so the history has exactly
\* one entry per processed investment date, in date order.
C17_SkippedCycleLeavesNoTrace ==
    []HistoryOnePerProcessedDate /\ [][SkippedCycleChangesNothing]_vars

\* a run that skipped its second investment date and processed its third
C17_Witness ==
    /\ Len(investment_dates) = 3
    /\ next_date = 4
    /\ NoTradingDayNear(investment_dates[2])
    /\ Len(portfolio_history) = 2
    /\ portfolio_history[2].date = investment_dates[3]

---------------------------------------------------------------------------
(* Properties of the transaction log *)

\* the log before the step is a prefix of the log after it
LogExtended ==
    /\ Len(transaction_history') >= Len(transaction_history)
    /\ SubSeq(transaction_history', 1, Len(transaction_history))
           = transaction_history

\* every lot has the buy entry that created it, and every lot that gave up
\* shares has a sell entry
EveryTradeLogged ==
    \A t \in DOMAIN holdings : \A i \in 1..Len(holdings[t].investments) :
        LET lot == holdings[t].investments[i]
        IN  /\ \E k \in 1..Len(transaction_history) :
                  LET x == transaction_history[k]
                  IN  /\ x.type = "buy"
                      /\ x.ticker = t
                      /\ x.lot = i
                      /\ x.shares = lot.initial_shares_purchased
                      /\ x.price = lot.price
                      /\ x.date = lot.date
            /\ (lot.sold \/ lot.shares_remaining # lot.initial_shares_purchased)
                   => \E k \in 1..Len(transaction_history) :
                         LET x == transaction_history[k]
                         IN  /\ x.type = "sell"
                             /\ x.ticker = t
                             /\ x.lot = i

\* C18: the transaction log is append-only: the log of every earlier state
\* is a prefix of the log of every later state, across add_cash,
\* buy_position, sell_position, track_and_manage_positions,
\* invest_available_cash and perform_rebalance; and every buy and sell the
\* driver executed is in the portfolio's transaction_history.
C18_LogAppendOnly == [][LogExtended]_vars /\ []EveryTradeLogged

\* a run whose log holds a deposit made after a harvest sale and a buy made
\* after that deposit
C18_Witness ==
    \E i, j, k \in 1..Len(transaction_history) :
        /\ i < j
        /\ j < k
        /\ transaction_history[i].type = "sell"
        /\ transaction_history[j].type = "deposit"
        /\ transaction_history[k].type = "buy"
        /\ Len(portfolio_history) >= 2

---------------------------------------------------------------------------
(* Properties of update_positions *)

\* a second update_positions call for the date and prices of the last one
\* would leave the portfolio as it is
SecondUpdateChangesNothing ==
    last.op = "update_positions"
        => update_positions(PortfolioState, date_prices, date) = PortfolioState

\* a step of update_positions leaves cash, the log, every shares_remaining
\* and every sold flag as they were
UpdateTouchesValuationOnly ==
    last'.op = "update_positions" =>
        /\ cash' = cash
        /\ transaction_history' = transaction_history
        /\ DOMAIN holdings' = DOMAIN holdings
        /\ \A t \in DOMAIN holdings :
              /\ holdings'[t].shares_remaining = holdings[t].shares_remaining
              /\ Len(holdings'[t].investments) = Len(holdings[t].investments)
              /\ \A i \in 1..Len(holdings[t].investments) :
                    /\ holdings'[t].investments[i].shares_remaining
                           = holdings[t].investments[i].shares_remaining
                    /\ holdings'[t].investments[i].sold
                           = holdings[t].investments[i].sold

\* C19: a second update_positions call for the same date and prices with no
\* trade in between leaves every lot's days_held, current_value and
\* return_pct as the first call left them, and update_positions never
\* changes cash, a shares_remaining, a sold flag or the transaction log.
C19_UpdateIdempotent ==
    []SecondUpdateChangesNothing /\ [][UpdateTouchesValuationOnly]_vars

\* an update_positions call that revalued a partly sold lot on a later date
C19_Witness ==
    /\ last.op = "update_positions"
    /\ \E t \in DOMAIN holdings : \E i \in 1..Len(holdings[t].investments) :
          LET lot == holdings[t].investments[i]
          IN  /\ ~lot.sold
              /\ lot.shares_remaining # lot.initial_shares_purchased
              /\ lot.days_held > 0
              /\ lot.return_pct # 0
              /\ lot.current_value
                     = RoundCents(lot.shares_remaining, date_prices[t])

---------------------------------------------------------------------------
(* Properties of a harvesting pass *)

\* the lot at position i of ticker t is active, at or below the trigger, and
\* its ticker has a price on the date of the pass
DueForHarvest(t, i) ==
    /\ HasPrice(date_prices, t)
    /\ ~holdings[t].investments[i].sold
    /\ holdings[t].investments[i].return_pct <= SellTrigger

\* the entries the step appended to the log
AppendedTxns ==
    SubSeq(transaction_history', Len(transaction_history) + 1,
           Len(transaction_history'))

\* what a step of track_and_manage_positions did to the lots and what it
\* returned
HarvestEffect ==
    /\ \A t \in DOMAIN holdings : \A i \in 1..Len(holdings[t].investments) :
          LET lot == holdings[t].investments[i]
              after == holdings'[t].investments[i]
              sales == {k \in 1..Len(AppendedTxns) :
                           /\ AppendedTxns[k].ticker = t
                           /\ AppendedTxns[k].lot = i}
          IN  /\ DueForHarvest(t, i) =>
                     /\ after.sold
                     /\ after.shares_remaining = RZero
                     /\ Cardinality(sales) = 1
                     /\ \A k \in sales :
                           /\ AppendedTxns[k].type = "sell"
                           /\ AppendedTxns[k].shares = lot.shares_remaining
              /\ lot.return_pct > SellTrigger => after = lot
    /\ SetOf(last'.sold_tickers)
           = {t \in DOMAIN holdings :
                 \E i \in 1..Len(holdings[t].investments) : DueForHarvest(t, i)}

---------------------------------------------------------------------------
(* Properties of a lot over its life *)

\* every lot has between 0 and its initial number of shares
LotSharesInRange ==
    \A t \in DOMAIN holdings : \A i \in 1..Len(holdings[t].investments) :
        LET lot == holdings[t].investments[i]
        IN  /\ RGe(lot.shares_remaining, RZero)
            /\ RLe(lot.shares_remaining, lot.initial_shares_purchased)

\* a step keeps every lot there is, with the date, price, initial shares and
\* cost it was created with, and with no more shares than it had
LotStep ==
    \A t \in DOMAIN holdings : \A i \in 1..Len(holdings[t].investments) :
        LET lot == holdings[t].investments[i]
        IN  /\ t \in DOMAIN holdings'
            /\ i <= Len(holdings'[t].investments)
            /\ holdings'[t].investments[i].date = lot.date
            /\ holdings'[t].investments[i].price = lot.price
            /\ holdings'[t].investments[i].initial_shares_purchased
                   = lot.initial_shares_purchased
            /\ holdings'[t].investments[i].cost = lot.cost
            /\ RLe(holdings'[t].investments[i].shares_remaining,
                   lot.shares_remaining)

\* C21: for every lot and across any sequence of operations,
\* shares_remaining never increases and stays within
\* 0 <= shares_remaining <= initial_shares_purchased, and the lot's purchase
\* date, unit price, initial share count and cost never change.
C21_LotSharesOnlyShrink == []LotSharesInRange /\ [][LotStep]_vars

\* a lot is flagged sold exactly when it has no shares left
SoldIffNoShares ==
    \A t \in DOMAIN holdings : \A i \in 1..Len(holdings[t].investments) :
        holdings[t].investments[i].sold
            <=> holdings[t].investments[i].shares_remaining = RZero

\* a step removes no lot and turns no sold lot back into an active one
LotsKeptAndSoldStays ==
    \A t \in DOMAIN holdings : \A i \in 1..Len(holdings[t].investments) :
        /\ t \in DOMAIN holdings'
        /\ i <= Len(holdings'[t].investments)
        /\ holdings[t].investments[i].sold => holdings'[t].investments[i].sold

\* C22: a lot's sold flag is true exactly when its shares_remaining is 0, in
\* every reachable state and whether the lot was consumed by sell_position
\* or by harvesting; no lot is ever removed from a holding, and a lot once
\* sold never becomes active again.
C22_SoldExactlyWhenEmpty == []SoldIffNoShares /\ [][LotsKeptAndSoldStays]_vars

---------------------------------------------------------------------------
(* Properties of invest_available_cash *)

\* the weights the last invest_available_cash sized its purchases with
LastAdjustedWeights ==
    AdjustedWeights(calculate_allocation_weights(portfolio_allocation, tickers),
                    last.excluded)

\* sum of floor(cash x weight x 100) / 100 over the tickers of S, cents
RECURSIVE SumInvestmentAmounts(_, _, _)
SumInvestmentAmounts(available_cash, weights, S) ==
    IF S = {} THEN 0
    ELSE LET t == CHOOSE x \in S : TRUE
         IN  InvestmentAmount(available_cash, weights[t])
                 + SumInvestmentAmounts(available_cash, weights, S \ {t})

\* the tickers of the adjusted weights that have a price
PricedTargets ==
    {t \in DOMAIN LastAdjustedWeights : HasPrice(date_prices, t)}

\* the share count the call computes for ticker t
TruncatedShares(t) ==
    SharesToBuy(InvestmentAmount(last.cash_before, LastAdjustedWeights[t]),
                date_prices[t])

\* C23: invest_available_cash never over-spends: the truncated per-ticker
\* amounts floor(cash x weight x 100)/100 (weights renormalized and rounded
\* to 4 decimals) sum to at most the cash available at entry, so every buy
\* executes for exactly the truncated share count floor(amount/price x
\* 100)/100 (a multiple of 0.01, at least 0.01) and cash after the call is
\* a non-negative remainder.
C23_InvestNeverOverspends ==
    (last.op = "invest_available_cash" /\ last.cash_before > 0) =>
        /\ SumInvestmentAmounts(last.cash_before, LastAdjustedWeights,
                                PricedTargets) <= last.cash_before
        /\ \A k \in 1..Len(NewTxns) :
              /\ NewTxns[k].type = "buy"
              /\ NewTxns[k].shares = TruncatedShares(NewTxns[k].ticker)
              /\ NewTxns[k].shares = Floor2(NewTxns[k].shares)
              /\ RGe(NewTxns[k].shares, MinShares)
        /\ {NewTxns[k].ticker : k \in 1..Len(NewTxns)}
               = {t \in PricedTargets : RGe(TruncatedShares(t), MinShares)}
        /\ cash >= 0

---------------------------------------------------------------------------
(* Properties of a perform_rebalance pass *)

\* the step ran perform_rebalance, called directly or by a cycle
RebalanceStep ==
    \/ last'.op = "perform_rebalance"
    \/ last'.op = "run_investment_cycle" /\ last'.rebalanced

\* target_values of the pass, computed from the state before it
PassTargetValues ==
    TargetValues(calculate_total_value(PortfolioState, date_prices),
        AdjustedTarget(calculate_allocation_weights(portfolio_allocation,
                                                    tickers),
                       last'.excluded))

\* current_values of the pass
PassCurrentValues == CurrentValues(PortfolioState, date_prices)

\* portfolio.cash when the buy recorded at position k of the pass is sized:
\* the cash before the pass, the proceeds of all its sells, less its earlier
\* buys
CashAtBuy(k) ==
    LET sells == SelectSeq(AppendedTxns, LAMBDA x : x.type = "sell")
        buys == SelectSeq(SubSeq(AppendedTxns, 1, k - 1),
                          LAMBDA x : x.type = "buy")
    IN  cash + LedgerCash(sells, Len(sells)) + LedgerCash(buys, Len(buys))

\* amount_to_buy of the buy at position k, given the cash it is sized with
AmountToBuy(k, available) ==
    LET t == AppendedTxns[k].ticker
        current_value == IF t \in DOMAIN PassCurrentValues
                         THEN PassCurrentValues[t] ELSE RZero
    IN  RMin(RSub(PassTargetValues[t], current_value), RInt(available))

\* the shares the buy at position k is made for, given the cash it is sized
\* with
SizedShares(k, available) ==
    LET t == AppendedTxns[k].ticker
    IN  BuyAmount(available,
                  Round2(RDiv(AmountToBuy(k, available), RInt(date_prices[t]))),
                  date_prices[t]).shares

SellsBeforeBuys ==
    /\ \A k \in 1..Len(AppendedTxns) : AppendedTxns[k].type \in {"sell", "buy"}
    /\ \A i, j \in 1..Len(AppendedTxns) :
          (AppendedTxns[i].type = "sell" /\ AppendedTxns[j].type = "buy")
              => i < j
    /\ \A k \in 1..Len(AppendedTxns) :
          AppendedTxns[k].type = "buy"
              => AppendedTxns[k].shares = SizedShares(k, CashAtBuy(k))

\* C24: within one perform_rebalance pass all sells execute before any buy:
\* in the transactions appended by the pass every 'sell' entry precedes
\* every 'buy' entry, and the cash used to size each buy includes the
\* proceeds of all sells of that pass.
C24_SellsThenBuys == [][RebalanceStep => SellsBeforeBuys]_vars

\* a pass that sold one ticker and bought another for more than the cash
\* there was before the pass
C24_Witness ==
    /\ last.op = "perform_rebalance"
    /\ \E i, j \in 1..Len(NewTxns) :
          /\ NewTxns[i].type = "sell"
          /\ NewTxns[j].type = "buy"
          /\ -NewTxns[j].amount > last.cash_before

---------------------------------------------------------------------------
(* Properties of a processed cycle *)

\* what is_rebalancing_needed returned in the last processed cycle
RebalanceWasDue ==
    /\ DOMAIN holdings # {}
    /\ should_rebalance_time(rebalance_frequency,
                             investment_dates[next_date - 1],
                             last.rebalance_before)

\* the entries of the last cycle by the call that wrote them
RebalanceEntries ==
    {k \in 1..Len(NewTxns) :
        NewTxns[k].description \in {"Rebalancing - Sell", "Rebalancing - Trim",
                                    "Rebalancing - Add"}}
HarvestEntries ==
    {k \in 1..Len(NewTxns) : NewTxns[k].description = "tax-loss harvesting"}
InvestEntries ==
    {k \in 1..Len(NewTxns) : NewTxns[k].description = "Bought"}
DepositEntries ==
    {k \in 1..Len(NewTxns) : NewTxns[k].type = "deposit"}

\* the positions were revalued at the date of the cycle before any trade:
\* every lot still held carries the days held at that date, and so does
\* every sale recorded in the cycle
RevaluedBeforeTrades ==
    /\ \A t \in DOMAIN holdings : \A i \in 1..Len(holdings[t].investments) :
          LET lot == holdings[t].investments[i]
          IN  (HasPrice(date_prices, t) /\ ~SkippedLot(lot))
                  => lot.days_held = date - lot.date
    /\ \A k \in 1..Len(NewTxns) :
          NewTxns[k].type = "sell"
              => NewTxns[k].days_held = date - LotOf(NewTxns[k]).date

\* C25: in every processed cycle the driver revalues positions
\* (update_positions) before any trade and then runs exactly one branch: if
\* is_rebalancing_needed returned true it runs perform_rebalance and no
\* harvesting or invest_available_cash in that cycle; otherwise it runs
\* track_and_manage_positions followed by invest_available_cash and no
\* rebalance.
C25_OneBranchPerCycle ==
    last.op = "process_investment_date" =>
        /\ RevaluedBeforeTrades
        /\ last.rebalanced = RebalanceWasDue
        /\ RebalanceEntries \cup HarvestEntries \cup InvestEntries
               \cup DepositEntries = 1..Len(NewTxns)
        /\ RebalanceWasDue => HarvestEntries = {} /\ InvestEntries = {}
        /\ ~RebalanceWasDue =>
               /\ RebalanceEntries = {}
               /\ \A i \in HarvestEntries : \A j \in InvestEntries : i < j
               /\ last.sold_tickers
                      = SelectSeq(TickerSeq, LAMBDA t :
                            \E k \in HarvestEntries : NewTxns[k].ticker = t)

\* a rebalance cycle that sold shares of a lot bought in an earlier cycle
C25_Witness ==
    /\ last.op = "process_investment_date"
    /\ last.rebalanced
    /\ \E k \in RebalanceEntries :
          NewTxns[k].type = "sell" /\ NewTxns[k].days_held > 0
    /\ \E k \in RebalanceEntries : NewTxns[k].type = "buy"

\* the excess of ticker t over its target, in shares:
\* round((current_value - target_value) / price, 2)
ExcessShares(t) ==
    Round2(RDiv(RSub(PassCurrentValues[t], PassTargetValues[t]),
                RInt(date_prices[t])))

\* a target ticker with a known price above the 2% band of its target
OverTarget(t) ==
    /\ t \in DOMAIN PassCurrentValues
    /\ t \in DOMAIN PassTargetValues
    /\ RGt(PassCurrentValues[t], RMul(PassTargetValues[t], UpperBand))

\* a held ticker with a known price that the target allocation leaves out
\* and that is not excluded
DroppedFromTarget(t) ==
    /\ t \in DOMAIN PassCurrentValues
    /\ t \notin DOMAIN calculate_allocation_weights(portfolio_allocation,
                                                   tickers)
    /\ t \notin last'.excluded

\* the pass sold shares of ticker t
SoldInPass(t) ==
    \E k \in 1..Len(AppendedTxns) :
        AppendedTxns[k].type = "sell" /\ AppendedTxns[k].ticker = t

\* the holding of t went down by the excess
Trimmed(t) ==
    /\ SoldInPass(t)
    /\ holdings'[t].shares_remaining
           = RSub(holdings[t].shares_remaining, ExcessShares(t))

\* the holding of t is gone, every lot of it sold
Liquidated(t) ==
    /\ holdings'[t].shares_remaining = RZero
    /\ \A i \in 1..Len(holdings'[t].investments) :
          holdings'[t].investments[i].sold

OverweightSold ==
    \A t \in DOMAIN holdings :
        /\ (OverTarget(t) /\ RGe(ExcessShares(t), MinShares)) => Trimmed(t)
        /\ DroppedFromTarget(t) => Liquidated(t)

\* C26: for every target ticker with a known price whose current value
\* exceeds 1.02 x its target value, perform_rebalance sells the excess
\* round((current_value - target_value) / price, 2) shares whenever that
\* quantity is at least 0.01 shares, and a held ticker that is absent from
\* the target allocation and not excluded is fully liquidated.
C26_OverweightTrimmed ==
    [][last'.op = "perform_rebalance" => OverweightSold]_vars

\* a target ticker with a known price whose value v is within 2% of its
\* target value w
WithinBand(v, w) ==
    /\ RGe(v, RMul(w, LowerBand))
    /\ RLe(v, RMul(w, UpperBand))

InBand(t) ==
    /\ t \in DOMAIN PassCurrentValues
    /\ t \in DOMAIN PassTargetValues
    /\ WithinBand(PassCurrentValues[t], PassTargetValues[t])

InBandUntouched ==
    \A t \in DOMAIN holdings :
        InBand(t) =>
            /\ \A k \in 1..Len(AppendedTxns) : AppendedTxns[k].ticker # t
            /\ holdings'[t] = holdings[t]

\* every buy of the pass is for at least 0.01 shares and for an
\* amount_to_buy of more than $10
MinimumPurchase ==
    \A k \in 1..Len(AppendedTxns) :
        AppendedTxns[k].type = "buy" =>
            /\ RGe(AppendedTxns[k].shares, MinShares)
            /\ RGt(AmountToBuy(k, CashAtBuy(k)), RInt(MinRebalanceCash))

LastTargetValues ==
    TargetValues(calculate_total_value(PortfolioState, date_prices),
        AdjustedTarget(calculate_allocation_weights(portfolio_allocation,
                                                    tickers),
                       last.excluded))

---------------------------------------------------------------------------
(* Properties of get_closest_trading_day *)

\* no row of the index at offset k on either side of the date
NoRowAt(k) == date + k \notin trading_days /\ date - k \notin trading_days

\* C28: get_closest_trading_day returns the target date itself when it is in
\* the price index; otherwise the trading day at the smallest calendar-day
\* offset k in 1..5, choosing target+k over target-k when both are trading
\* days; and a 'none' result exactly when no date within 5 days on either
\* side is in the index.  Any date it returns is in the price index.
C28_ClosestTradingDay ==
    last.op = "get_closest_trading_day" =>
        /\ date \in trading_days => last.ret = date
        /\ date \notin trading_days =>
              /\ last.ret = NoDate <=> \A k \in 1..5 : NoRowAt(k)
              /\ \A k \in 1..5 :
                    (~NoRowAt(k) /\ \A j \in 1..(k - 1) : NoRowAt(j)) =>
                        last.ret = IF date + k \in trading_days
                                   THEN date + k ELSE date - k
        /\ last.ret # NoDate => last.ret \in trading_days

\* a lookup that found rows two days before and two days after the date,
\* none closer, and returned the later one
C28_Witness ==
    /\ last.op = "get_closest_trading_day"
    /\ date \notin trading_days
    /\ NoRowAt(1)
    /\ date - 2 \in trading_days
    /\ last.ret = date + 2

---------------------------------------------------------------------------
(* Properties of a sell_position call that fails *)

\* the call could sell no share: the ticker has no holding entry, or no
\* entry with a positive number of shares was recorded
NoShareSold ==
    \/ last'.ticker \notin DOMAIN holdings
    \/ \A k \in 1..Len(AppendedTxns) : ~RGt(AppendedTxns[k].shares, RZero)

PortfolioUnchanged ==
    UNCHANGED <<cash, holdings, transaction_history,
                short_term_realized_gains, short_term_realized_losses,
                long_term_realized_gains, long_term_realized_losses>>

FailedSellEffect ==
    /\ NoShareSold => last'.ret = "None"
    /\ last'.ret = "None" => PortfolioUnchanged

\* C29: sell_position signals failure (returns None) when the ticker has no
\* holding entry or when no share could be sold, and in both cases cash, all
\* holdings and lots, the realized gain/loss buckets and the transaction log
\* are left exactly as they were before the call.
C29_FailedSellChangesNothing == [][last'.op = "sell" => FailedSellEffect]_vars

---------------------------------------------------------------------------
(* Properties of the rebalancing cadence over a run *)

\* the investment date of the last processed cycle, and the period it is in
CycleDate == investment_dates[next_date - 1]
CyclePeriod == PeriodIndex(rebalance_frequency, CycleDate)

\* the last processed cycle is the first one processed in its period, and
\* the period is later than the one of the start date
FirstOfLaterPeriod ==
    LET earlier == ProcessedDates(next_date - 2)
    IN  /\ CyclePeriod > PeriodIndex(rebalance_frequency, investment_dates[1])
        /\ \A j \in 1..Len(earlier) :
              PeriodIndex(rebalance_frequency, earlier[j]) < CyclePeriod

\* C30: over a run with non-decreasing investment dates, rebalancing happens
\* at most once per calendar period of rebalance_frequency and never in the
\* period containing the start date: any two cycles in which
\* perform_rebalance runs have investment dates in different periods, the
\* first processed investment date of each later period is a rebalance
\* cycle, and when investment dates advance one period at a time (monthly
\* investing with monthly rebalancing) every processed cycle after the first
\* period is a rebalance cycle in which no harvesting runs.
C30_OneRebalancePerPeriod ==
    last.op = "process_investment_date" =>
        /\ last.rebalanced = FirstOfLaterPeriod
        /\ last.rebalanced =>
              /\ last_rebalance_date = CycleDate
              /\ PeriodIndex(rebalance_frequency, last.rebalance_before)
                     < CyclePeriod
              /\ HarvestEntries = {}
        /\ ~last.rebalanced => last_rebalance_date = last.rebalance_before
        /\ (rebalance_frequency = "monthly" /\ next_date - 1 > 1)
               => (last.rebalanced /\ HarvestEntries = {})

\* a cycle in the quarter of an earlier rebalance cycle, which did not
\* rebalance again
C30_Witness ==
    /\ last.op = "process_investment_date"
    /\ ~last.rebalanced
    /\ last.rebalance_before # investment_dates[1]
    /\ PeriodIndex(rebalance_frequency, last.rebalance_before) = CyclePeriod

====
